---- MODULE Spec2Model ----
(***************************************************************************)
(* Water bill processor: the spreadsheet reconciler                        *)
(* (processors/excel_processor.py) and the two district extractors         *)
(* (extractors/nmwd.py, extractors/mmwd.py), as state machines.            *)
(*                                                                         *)
(* A Python string is a sequence of one-character strings, written         *)
(* S("text"); None is NoneV; a worksheet cell holds NoneV, a string, a      *)
(* number or a date.  Money is counted in cents.  File names and district  *)
(* names, which are only compared as wholes, stay TLA+ strings.            *)
(***************************************************************************)
EXTENDS Integers, Sequences, FiniteSets, TLC

VARIABLES
    district,            \* the district the session reconciles (the call's argument)
    selection,           \* the batch of bills the session reconciles
    template,            \* TEMPLATES[district] on disk: a worksheet, or Absent
    reportFile,          \* the report file of the district on disk: a worksheet,
                         \* Absent or Corrupt
    has_last_unmatched,  \* hasattr(self, 'last_unmatched')
    last_unmatched,      \* self.last_unmatched: sequence of <<account, filename>>
    pc,                  \* position in generate_excel_report: "idle", "loop"
    bills,               \* the batch of the call in progress
    idx,                 \* 1-based index of the next bill of the loop
    worksheet,           \* the in-memory worksheet of the call
    excel_accounts,      \* the row index built by the scan, in insertion order
    target_row,          \* target_row of the last loop iteration (0: None)
    matched_count,       \* matched_count of the call
    ret,                 \* what the last call returned: NoneV or Path(p)
    saves,               \* number of completed workbook.save() of the last call
    outcome,             \* how the last call ended
    pdf_file,            \* the PDF file extract_data is called with
    extractor,           \* the extractor called: "NMWD" or "MMWD"
    epc,                 \* position in extract_data
    cur_text,            \* the local "text" of extract_data: NoneV or a string
    returned,            \* what extract_data returned: NoneV or a BillData
    call,                \* a call of a function without side effects: its
                         \* name and its arguments
    result,              \* what the call returned; Pending before it has
    selected_files,      \* self.selected_files: the PDF files of the window
    _processing,         \* self._processing
    rpc,                 \* position in process_files: "idle", "files",
                         \* "update", "report"
    file_index,          \* 1-based index of the next file of the loop
    file_path,           \* the local file_path of the loop
    buttons_enabled,     \* the state set_buttons_enabled left process_btn
                         \* and clear_btn in
    handled,             \* history: the handlers root.update() has called
                         \* inside the run, in the order of the calls
    started_with,        \* history: self.selected_files as it was when the
                         \* run began
    successful_bills,    \* the local successful_bills of process_files
    warnings,            \* the local warnings of process_files
    results_tree,        \* the rows of the results table: <<file, status>>
    bills_dir,           \* the copies made under BILLS_DIRS
    runs                 \* how many times process_files has begun a run

\* the variables of generate_excel_report and those of extract_data
excelVars == <<district, selection, template, reportFile, has_last_unmatched,
               last_unmatched, pc, bills, idx, worksheet, excel_accounts,
               target_row, matched_count, ret, saves, outcome>>
extractVars == <<pdf_file, extractor, epc, cur_text, returned>>
callVars == <<call, result>>
runVars == <<selected_files, _processing, rpc, file_index, file_path,
             buttons_enabled, handled, started_with, successful_bills,
             warnings, results_tree, bills_dir, runs>>

vars == <<excelVars, extractVars, callVars, runVars>>

-----------------------------------------------------------------------------
(* Values *)

NoneV == [t |-> "none"]
Str(s) == [t |-> "str", s |-> s]
Num(n) == [t |-> "num", n |-> n]
DateV(y, m, d) == [t |-> "date", y |-> y, m |-> m, d |-> d]

\* process_files has not been called
NoRun ==
    /\ selected_files = <<>>
    /\ _processing = FALSE
    /\ rpc = "idle"
    /\ file_index = 1
    /\ file_path = NoneV
    /\ buttons_enabled = TRUE
    /\ handled = <<>>
    /\ started_with = <<>>
    /\ successful_bills = <<>>
    /\ warnings = <<>>
    /\ results_tree = <<>>
    /\ bills_dir = {}
    /\ runs = 0

Absent == [t |-> "absent"]
\* a call that has not returned, and no call at all
Pending == [t |-> "pending"]
Bool(b) == [t |-> "bool", b |-> b]
NoCall == [fn |-> "none"]
Corrupt == [t |-> "corrupt"]
Path(p) == [t |-> "path", p |-> p]
\* a workbook file holding the worksheet rows
Sheet(rows) == [t |-> "sheet", rows |-> rows]

\* the Python string written as the TLA+ string literal lit
S(lit) == [i \in 1..Len(lit) |-> SubSeq(lit, i, i)]

Digits == {"0", "1", "2", "3", "4", "5", "6", "7", "8", "9"}
Whitespace == {" ", "\t", "\n", "\r"}

IsDigit(c) == c \in Digits

\* str.strip()
RECURSIVE lstrip(_)
lstrip(s) ==
    IF Len(s) > 0 /\ Head(s) \in Whitespace THEN lstrip(Tail(s)) ELSE s

RECURSIVE rstrip(_)
rstrip(s) ==
    IF Len(s) > 0 /\ s[Len(s)] \in Whitespace
    THEN rstrip(SubSeq(s, 1, Len(s) - 1))
    ELSE s

strip(s) == rstrip(lstrip(s))

\* a in b, for two strings
InStr(a, b) ==
    \E i \in 0..(Len(b) - Len(a)) : SubSeq(b, i + 1, i + Len(a)) = a

\* re.sub(r"\D", "", s)
DigitsOnly(s) == SelectSeq(s, IsDigit)

\* int() of a string of digits
RECURSIVE ToInt(_)
ToInt(s) ==
    IF Len(s) = 0 THEN 0
    ELSE 10 * ToInt(SubSeq(s, 1, Len(s) - 1))
         + (CHOOSE n \in 0..9 : S("0123456789")[n + 1] = s[Len(s)])

AllDigits(s) == \A i \in 1..Len(s) : IsDigit(s[i])

\* positions of "/" in s
Slashes(s) == {i \in 1..Len(s) : s[i] = "/"}

IsLeap(y) == (y % 4 = 0 /\ y % 100 # 0) \/ y % 400 = 0

DaysInMonth(y, m) ==
    IF m = 2 THEN (IF IsLeap(y) THEN 29 ELSE 28)
    ELSE IF m \in {4, 6, 9, 11} THEN 30 ELSE 31

\* the text %m accepts: 1[0-2]|0[1-9]|[1-9]
IsMonthText(s) ==
    /\ Len(s) \in {1, 2}
    /\ AllDigits(s)
    /\ ToInt(s) \in 1..12

\* the text %d accepts: 3[01]|[12]\d|0[1-9]|[1-9]| [1-9]
IsDayText(s) ==
    \/ /\ Len(s) \in {1, 2}
       /\ AllDigits(s)
       /\ ToInt(s) \in 1..31
    \/ /\ Len(s) = 2
       /\ s[1] = " "
       /\ s[2] \in Digits \ {"0"}

\* datetime.strptime(s, "%m/%d/%Y"): the date, or NoneV where it raises
strptime_mdY(s) ==
    IF Cardinality(Slashes(s)) # 2 THEN NoneV
    ELSE
        LET i == CHOOSE k \in Slashes(s) : \A j \in Slashes(s) : k <= j
            j == CHOOSE k \in Slashes(s) : \A l \in Slashes(s) : l <= k
            ms == SubSeq(s, 1, i - 1)
            ds == SubSeq(s, i + 1, j - 1)
            ys == SubSeq(s, j + 1, Len(s))
        IN  IF /\ IsMonthText(ms)
               /\ IsDayText(ds)
               /\ Len(ys) = 4
               /\ AllDigits(ys)
            THEN LET m == ToInt(ms)
                     d == ToInt(DigitsOnly(ds))
                     y == ToInt(ys)
                 IN  IF y >= 1 /\ d <= DaysInMonth(y, m)
                     THEN DateV(y, m, d)
                     ELSE NoneV
            ELSE NoneV

-----------------------------------------------------------------------------
(* Text: str methods and the re module, as the extractors use them.  A       *)
(* pattern is a sequence of items: a literal, a character class with its    *)
(* repetition, a group boundary, a repeated group, an alternation, a line   *)
(* start, a lookahead.                                                       *)

Chars(lit) == {SubSeq(lit, i, i) : i \in 1..Len(lit)}

LowerCase == "abcdefghijklmnopqrstuvwxyz"
UpperCase == "ABCDEFGHIJKLMNOPQRSTUVWXYZ"

ToUpper ==
    [c \in Chars(LowerCase) |->
        LET i == CHOOSE j \in 1..Len(LowerCase) : SubSeq(LowerCase, j, j) = c
        IN  SubSeq(UpperCase, i, i)]

ToLower ==
    [c \in Chars(UpperCase) |->
        LET i == CHOOSE j \in 1..Len(UpperCase) : SubSeq(UpperCase, j, j) = c
        IN  SubSeq(LowerCase, i, i)]

upper1(c) == IF c \in DOMAIN ToUpper THEN ToUpper[c] ELSE c
lower1(c) == IF c \in DOMAIN ToLower THEN ToLower[c] ELSE c

\* str.upper()
upper(s) == [i \in 1..Len(s) |-> upper1(s[i])]

\* s.replace(c, "") for every character c of cs
Remove(s, cs) == LET Keep(c) == c \notin cs IN SelectSeq(s, Keep)

\* the least and the greatest member of a non-empty set of integers
Least(ns) == CHOOSE n \in ns : \A m \in ns : n <= m
Greatest(ns) == CHOOSE n \in ns : \A m \in ns : m <= n

\* s.split("\n")
split_lines(s) ==
    LET starts == {1} \cup {i + 1 : i \in {j \in 1..Len(s) : s[j] = "\n"}}
        start(k) == CHOOSE a \in starts : Cardinality({b \in starts : b < a}) = k - 1
        stop(a) == LET nl == {j \in a..Len(s) : s[j] = "\n"}
                   IN  IF nl = {} THEN Len(s) ELSE Least(nl) - 1
    IN  [k \in 1..Cardinality(starts) |-> SubSeq(s, start(k), stop(start(k)))]

\* s.splitlines(), for a text whose only line boundary is "\n": no empty last line
splitlines(s) ==
    LET lines == split_lines(s)
    IN  IF lines[Len(lines)] = <<>> THEN SubSeq(lines, 1, Len(lines) - 1) ELSE lines

\* str(n) of a natural number
RECURSIVE ToStr(_)
ToStr(n) ==
    IF n < 10 THEN <<S("0123456789")[n + 1]>>
    ELSE ToStr(n \div 10) \o <<S("0123456789")[(n % 10) + 1]>>

\* a number of at least two (%m, %d) or four (%Y) digits
Pad(n, width) ==
    LET s == ToStr(n)
    IN  [i \in 1..(width - Len(s)) |-> "0"] \o s

\* a float: mant / 10^scale, with no trailing zero in the fraction, so that equal
\* floats are equal values
RECURSIVE Float(_, _)
Float(mant, scale) ==
    IF scale > 0 /\ mant % 10 = 0 THEN Float(mant \div 10, scale - 1)
    ELSE [t |-> "float", mant |-> mant, scale |-> scale]

Negated(f) == Float(0 - f.mant, f.scale)

\* float(s) of a string of digits, points and parentheses: NoneV where it raises
\* ValueError.  float accepts digits with at most one point, a digit among them.
float(s) ==
    LET points == {i \in 1..Len(s) : s[i] = "."}
        digits == DigitsOnly(s)
    IN  IF /\ \A i \in 1..Len(s) : s[i] \in Digits \cup {"."}
           /\ Cardinality(points) <= 1
           /\ digits # <<>>
        THEN Float(ToInt(digits),
                   IF points = {} THEN 0 ELSE Len(s) - Least(points))
        ELSE NoneV

\* pattern items
Class(cls, neg, min, max, inf, lazy) ==
    [k |-> "class", cls |-> cls, neg |-> neg, min |-> min, max |-> max,
     inf |-> inf, lazy |-> lazy]
\* [cls]
One(cls) == Class(cls, FALSE, 1, 1, FALSE, FALSE)
\* the literal text lit
Lit(lit) == << [k |-> "lit", s |-> S(lit)] >>
\* [cls]{min,max}
Rep(cls, min, max) == Class(cls, FALSE, min, max, FALSE, FALSE)
\* [cls]?
Opt(cls) == Rep(cls, 0, 1)
\* [cls]{min,}
AtLeast(cls, min) == Class(cls, FALSE, min, 0, TRUE, FALSE)
\* [cls]*
Star(cls) == AtLeast(cls, 0)
\* [cls]+
Plus(cls) == AtLeast(cls, 1)
\* [^cls]*
NotStar(cls) == Class(cls, TRUE, 0, 0, TRUE, FALSE)
\* [^cls]*? and [^cls]+?
NotLazy(cls, min) == Class(cls, TRUE, min, 0, TRUE, TRUE)
\* the boundaries of capturing group g
Open(g) == [k |-> "mark", g |-> 2 * g - 1]
Close(g) == [k |-> "mark", g |-> 2 * g]
\* (items), capturing group g
Cap(g, items) == <<Open(g)>> \o items \o <<Close(g)>>
Group(items, min, max, inf) ==
    [k |-> "group", items |-> items, min |-> min, max |-> max, inf |-> inf]
\* (?:items)?
OptGroup(items) == Group(items, 0, 1, FALSE)
\* (?:items)*
StarGroup(items) == Group(items, 0, 0, TRUE)
\* (?:a|b|c)
Alt(alts) == [k |-> "alt", alts |-> alts]
\* ^
Bol == [k |-> "bol"]
\* (?=items)
Ahead(items) == [k |-> "ahead", items |-> items]

\* re.IGNORECASE and re.MULTILINE; re.DOTALL is in the class written for "."
Flags(ic, multiline) == [ic |-> ic, multiline |-> multiline]
NoFlags == Flags(FALSE, FALSE)
IGNORECASE == Flags(TRUE, FALSE)

Hit(c, it, ic) ==
    (\/ c \in it.cls
     \/ ic /\ (upper1(c) \in it.cls \/ lower1(c) \in it.cls)) # it.neg

\* how many characters from position p on a class item takes at most
RunLen(text, p, it, ic) ==
    IF p > Len(text) \/ ~Hit(text[p], it, ic) THEN 0
    ELSE LET last == IF it.inf \/ p + it.max - 1 > Len(text)
                     THEN Len(text) ELSE p + it.max - 1
             stop == {q \in p..last : ~Hit(text[q], it, ic)}
         IN  IF stop = {} THEN last - p + 1 ELSE Least(stop) - p

LitAt(text, p, s, ic) ==
    /\ p + Len(s) - 1 <= Len(text)
    /\ LET t == SubSeq(text, p, p + Len(s) - 1)
       IN  IF ic THEN upper(t) = upper(s) ELSE t = s

Dec(n) == IF n > 0 THEN n - 1 ELSE 0

\* F of a value that is computed once
With(v, F(_)) == F(v)

RECURSIVE Run(_, _, _, _)
RECURSIVE TryAlts(_, _, _, _, _, _)

\* The first way, in the order a backtracking matcher tries them, to match the
\* items todo at position p of text: the marks <<group boundary, position>> it
\* passes, ended by <<0, end>>; <<>> when there is no way.
Run(text, p, todo, fl) ==
    IF todo = <<>> THEN << <<0, p>> >>
    ELSE
        LET it == Head(todo)
            rest == Tail(todo)
        IN  CASE it.k = "lit" ->
                    IF LitAt(text, p, it.s, fl.ic)
                    THEN Run(text, p + Len(it.s), rest, fl)
                    ELSE <<>>
              [] it.k = "class" ->
                    With(RunLen(text, p, it, fl.ic), LAMBDA n :
                      IF n < it.min THEN <<>>
                      ELSE With(Run(text, p + (IF it.lazy THEN it.min ELSE n), rest, fl),
                                LAMBDA r1 :
                        IF r1 # <<>> \/ n = it.min THEN r1
                        ELSE With({c \in (it.min)..n : Run(text, p + c, rest, fl) # <<>>},
                                  LAMBDA ok :
                          IF ok = {} THEN <<>>
                          ELSE Run(text,
                                   p + (IF it.lazy THEN Least(ok) ELSE Greatest(ok)),
                                   rest, fl))))
              [] it.k = "mark" ->
                    With(Run(text, p, rest, fl), LAMBDA r :
                      IF r = <<>> THEN <<>> ELSE << <<it.g, p>> >> \o r)
              [] it.k = "group" ->
                    With(IF it.inf \/ it.max > 0
                         THEN Run(text, p,
                                  it.items
                                  \o <<[it EXCEPT !.min = Dec(it.min),
                                                  !.max = Dec(it.max)]>>
                                  \o rest, fl)
                         ELSE <<>>,
                         LAMBDA more :
                      IF more # <<>> THEN more
                      ELSE IF it.min = 0 THEN Run(text, p, rest, fl)
                      ELSE <<>>)
              [] it.k = "alt" -> TryAlts(text, p, it.alts, rest, fl, 1)
              [] it.k = "bol" ->
                    IF p = 1 \/ (fl.multiline /\ text[p - 1] = "\n")
                    THEN Run(text, p, rest, fl)
                    ELSE <<>>
              [] it.k = "ahead" ->
                    IF Run(text, p, it.items, fl) # <<>>
                    THEN Run(text, p, rest, fl)
                    ELSE <<>>

TryAlts(text, p, alts, rest, fl, i) ==
    IF i > Len(alts) THEN <<>>
    ELSE With(Run(text, p, alts[i] \o rest, fl), LAMBDA r :
           IF r # <<>> THEN r
           ELSE TryAlts(text, p, alts, rest, fl, i + 1))

\* the leftmost match at or after position from, its start as mark -1; <<>> if none
SearchFrom(text, from, pat, fl) ==
    With({p \in from..(Len(text) + 1) : Run(text, p, pat, fl) # <<>>}, LAMBDA hits :
      IF hits = {} THEN <<>>
      ELSE << <<-1, Least(hits)>> >> \o Run(text, Least(hits), pat, fl))

\* re.search(pattern, text, flags)
re_search(pat, text, fl) == SearchFrom(text, 1, pat, fl)

MarkAt(m, g) == m[CHOOSE i \in 1..Len(m) : m[i][1] = g][2]

\* match.group(g); group 0 is the whole match
group(text, m, g) ==
    IF g = 0 THEN SubSeq(text, MarkAt(m, -1), MarkAt(m, 0) - 1)
    ELSE SubSeq(text, MarkAt(m, 2 * g - 1), MarkAt(m, 2 * g) - 1)

\* re.finditer(pattern, text): the matches from left to right, none overlapping
\* (the patterns it is used with match no empty string)
RECURSIVE IterFrom(_, _, _, _)
IterFrom(text, from, pat, fl) ==
    With(SearchFrom(text, from, pat, fl), LAMBDA m :
      IF m = <<>> THEN <<>>
      ELSE <<m>> \o IterFrom(text, MarkAt(m, 0), pat, fl))

re_finditer(pat, text, fl) == IterFrom(text, 1, pat, fl)

\* datetime.strptime(s, "%m/%d/%y"): the year is 20yy up to 68 and 19yy from 69
strptime_mdy(s) ==
    IF Cardinality(Slashes(s)) # 2 THEN NoneV
    ELSE
        LET j == Greatest(Slashes(s))
            ys == SubSeq(s, j + 1, Len(s))
        IN  IF Len(ys) = 2 /\ AllDigits(ys)
            THEN strptime_mdY(SubSeq(s, 1, j)
                              \o (IF ToInt(ys) <= 68 THEN S("20") ELSE S("19"))
                              \o ys)
            ELSE NoneV

\* dt.strftime("%m/%d/%Y"); the year is written with four digits (below 1000 the
\* C library decides the padding, and no text of the model holds such a year)
strftime_mdY(dt) == Pad(dt.m, 2) \o S("/") \o Pad(dt.d, 2) \o S("/") \o Pad(dt.y, 4)

-----------------------------------------------------------------------------
(* Configuration: config.py *)

NorthMarin == "North Marin"
MarinMunicipal == "Marin Municipal"
Districts == {NorthMarin, MarinMunicipal}

start_row == 9
account_col == 8
scan_rows == 50

NorthMarinConfig ==
    [vendor_id |-> S("300011"), supplier_name |-> S("North Marin Water District")]

MarinMunicipalConfig ==
    [vendor_id |-> S("309438"), supplier_name |-> S("Marin Municipal Water District")]

DISTRICT_CONFIG(d) == IF d = NorthMarin THEN NorthMarinConfig ELSE MarinMunicipalConfig

Commodity == Str(S("Water"))
GLCode == Str(S("105-000-60035-803-0000"))

Columns == 1..10
amount_col == 9

\* _generate_output_path: one fixed file name per district, in the reports directory
_generate_output_path(d) ==
    IF d = NorthMarin
    THEN "BioMarin Pharmaceutical Inc. Account Allocation - North Marin Water.xlsx"
    ELSE "BioMarin Pharmaceutical Inc. Account Allocation - Marin Municipal Water District.xlsx"

-----------------------------------------------------------------------------
(* ExcelProcessor: processors/excel_processor.py *)

\* str(value) of a cell value that is text
PyStr(v) == IF v.t = "str" THEN v.s ELSE <<>>

\* truth value of a cell value, as in "if cell_value:"
Truthy(v) ==
    CASE v.t = "none" -> FALSE
      [] v.t = "str"  -> v.s # <<>>
      [] v.t = "num"  -> v.n # 0
      [] OTHER        -> TRUE

_norm_acct(value) == IF value = NoneV THEN <<>> ELSE DigitsOnly(PyStr(value))

_is_account_match_exact_only(bill_account, excel_account) ==
    /\ bill_account # <<>>
    /\ excel_account # <<>>
    /\ DigitsOnly(bill_account) = DigitsOnly(excel_account)

\* a faulty variant: an empty row account is not refused
_is_account_match_empty_row(bill_account, excel_account) ==
    IF bill_account = <<>> THEN FALSE
    ELSE LET bill_norm == DigitsOnly(bill_account)
             excel_norm == DigitsOnly(excel_account)
         IN  \/ bill_norm = excel_norm
             \/ InStr(bill_norm, excel_norm)
             \/ InStr(excel_norm, bill_norm)

\* a faulty variant: only the bill's account is looked for in the row's
_is_account_match_one_way(bill_account, excel_account) ==
    IF bill_account = <<>> \/ excel_account = <<>> THEN FALSE
    ELSE InStr(DigitsOnly(bill_account), DigitsOnly(excel_account))

_is_account_match(bill_account, excel_account) ==
    IF bill_account = <<>> \/ excel_account = <<>> THEN FALSE
    ELSE LET bill_norm == DigitsOnly(bill_account)
             excel_norm == DigitsOnly(excel_account)
         IN  \/ bill_norm = excel_norm
             \/ InStr(bill_norm, excel_norm)
             \/ InStr(excel_norm, bill_norm)

\* a faulty variant: a cell that holds a number counts as blank
_is_blank_or_number(cell) ==
    \/ cell = NoneV
    \/ cell.t = "num"
    \/ (cell.t = "str" /\ strip(cell.s) = <<>>)

_is_blank(cell) ==
    \/ cell = NoneV
    \/ (cell.t = "str" /\ strip(cell.s) = <<>>)

\* worksheet.cell(row, column).value; a row the sheet does not hold is empty
CellValue(ws, r, c) == IF r \in DOMAIN ws THEN ws[r][c] ELSE NoneV

\* worksheet.max_row
max_row(ws) == CHOOSE r \in DOMAIN ws : \A q \in DOMAIN ws : q <= r

Min2(a, b) == IF a <= b THEN a ELSE b

\* the scan loop over range(first, stop): the rows with a truthy account cell, in
\* ascending order (a row the sheet does not hold has an empty account cell)
RECURSIVE ScanRows(_, _)
ScanRows(ws, rows) ==
    IF rows = {} THEN <<>>
    ELSE LET r == CHOOSE q \in rows : \A p \in rows : q <= p
         IN  <<[row |-> r, account |-> strip(PyStr(ws[r][account_col]))]>>
             \o ScanRows(ws, rows \ {r})

ScanFrom(ws, first, stop) ==
    ScanRows(ws, {r \in DOMAIN ws :
                    first <= r /\ r < stop /\ Truthy(ws[r][account_col])})

\* a faulty variant: only the start row is scanned
ScanAccounts_start_row_only(ws) == ScanFrom(ws, start_row, start_row + 1)

ScanAccounts(ws) ==
    ScanFrom(ws, start_row, Min2(start_row + scan_rows, max_row(ws) + 1))

\* first loop: the first indexed row that matches and whose amount cell is blank (0: none)
RECURSIVE FirstBlankMatch(_, _, _, _)
FirstBlankMatch(ws, accts, acct, i) ==
    IF i > Len(accts) THEN 0
    ELSE IF /\ _is_account_match(acct, accts[i].account)
            /\ _is_blank(CellValue(ws, accts[i].row, amount_col))
         THEN accts[i].row
         ELSE FirstBlankMatch(ws, accts, acct, i + 1)

\* second loop: the first indexed row that matches (0: none)
RECURSIVE FirstAnyMatch(_, _, _)
FirstAnyMatch(accts, acct, i) ==
    IF i > Len(accts) THEN 0
    ELSE IF _is_account_match(acct, accts[i].account)
         THEN accts[i].row
         ELSE FirstAnyMatch(accts, acct, i + 1)

\* a faulty variant: a record that matches no row is put into the first row without an account
FindTargetRow_or_free_row(ws, accts, acct) ==
    LET blank == FirstBlankMatch(ws, accts, acct, 1)
        any == FirstAnyMatch(accts, acct, 1)
        free == {r \in DOMAIN ws : r >= start_row /\ _is_blank(ws[r][account_col])}
    IN  IF blank # 0 THEN blank
        ELSE IF any # 0 THEN any
        ELSE IF free # {} THEN CHOOSE r \in free : \A q \in free : r <= q
        ELSE 0

\* a faulty variant: the second loop comes first, so a filled row is taken before a blank one
FindTargetRow_any_first(ws, accts, acct) == FirstAnyMatch(accts, acct, 1)

\* a faulty variant: the second loop is missing
FindTargetRow_blank_only(ws, accts, acct) == FirstBlankMatch(ws, accts, acct, 1)

FindTargetRow(ws, accts, acct) ==
    LET blank == FirstBlankMatch(ws, accts, acct, 1)
    IN  IF blank # 0 THEN blank ELSE FirstAnyMatch(accts, acct, 1)

\* the value _populate_row writes into column c when the cell is blank
FillValue(bill, config, c) ==
    CASE c = 1  -> (IF strptime_mdY(bill.bill_date) # NoneV
                    THEN strptime_mdY(bill.bill_date)
                    ELSE Str(bill.bill_date))
      [] c = 2  -> Str(bill.service_address)
      [] c = 3  -> Str(bill.service_period)
      [] c = 4  -> Commodity
      [] c = 5  -> GLCode
      [] c = 6  -> Str(config.vendor_id)
      [] c = 7  -> Str(config.supplier_name)
      [] c = 8  -> Str(bill.account_number)
      [] c = 9  -> Num(bill.total_due)
      [] c = 10 -> Num(bill.current_usage_gallons)

\* a faulty variant: the amount cell is left as it is
_populate_row_without_amount(ws, row_num, bill, config) ==
    [ws EXCEPT ![row_num] =
        [c \in Columns |->
            IF _is_blank(ws[row_num][c]) /\ c # amount_col
            THEN FillValue(bill, config, c)
            ELSE ws[row_num][c]]]

\* a faulty variant: the cells are written without the blank checks
_populate_row_overwrite(ws, row_num, bill, config) ==
    [ws EXCEPT ![row_num] = [c \in Columns |-> FillValue(bill, config, c)]]

_populate_row(ws, row_num, bill, config) ==
    [ws EXCEPT ![row_num] =
        [c \in Columns |->
            IF _is_blank(ws[row_num][c]) THEN FillValue(bill, config, c)
            ELSE ws[row_num][c]]]

-----------------------------------------------------------------------------
(* BaseExtractor: extractors/base.py, and models/bill_data.py *)

\* a or b, for two values
PyOr(a, b) == IF Truthy(a) THEN a ELSE b

\* the text of a value that is a string, "" for None (value or '')
OrEmpty(v) == IF Truthy(v) THEN v.s ELSE <<>>

\* U+2013 EN DASH, for which the texts of the model write "~"
EnDash == "~"
UnicodeDashes == {EnDash}

\* text.replace("‒", "-").replace("–", "-").replace("—", "-")
\*     .replace("−", "-")
normalize_dashes(s) ==
    [i \in 1..Len(s) |-> IF s[i] \in UnicodeDashes THEN "-" ELSE s[i]]

\* \d{2}/\d{2}/\d{4}
DateStrict ==
    <<Rep(Digits, 2, 2)>> \o Lit("/") \o <<Rep(Digits, 2, 2)>> \o Lit("/")
    \o <<Rep(Digits, 4, 4)>>

\* \d{1,2}/\d{1,2}/\d{2,4}
DateLoose ==
    <<Rep(Digits, 1, 2)>> \o Lit("/") \o <<Rep(Digits, 1, 2)>> \o Lit("/")
    \o <<Rep(Digits, 2, 4)>>

\* \d{1,3}(?:,\d{3})*
Thousands == <<Rep(Digits, 1, 3), StarGroup(Lit(",") \o <<Rep(Digits, 3, 3)>>)>>

\* \(?(?:\d{1,3}(?:,\d{3})*|\d+)(?:\.\d{2})?\)?
Amount ==
    <<Opt({"("}), Alt(<<Thousands, <<Plus(Digits)>> >>),
      OptGroup(Lit(".") \o <<Rep(Digits, 2, 2)>>), Opt({")"})>>

\* .*? under re.DOTALL
AnyLazy == NotLazy({}, 0)

\* _extract_pattern: the first group of the first match, stripped; NoneV if none
_extract_pattern(text, pattern) ==
    IF ~Truthy(text) THEN NoneV
    ELSE With(re_search(pattern, text.s, IGNORECASE), LAMBDA match :
           IF match # <<>> THEN Str(strip(group(text.s, match, 1))) ELSE NoneV)

\* the float of an amount text: commas and "$" removed, parentheses negate
AmountValue(amount_str) ==
    With(strip(Remove(amount_str, {",", "$"})), LAMBDA value_str :
      LET is_negative == /\ Len(value_str) > 0
                         /\ value_str[1] = "("
                         /\ value_str[Len(value_str)] = ")"
          \* value_str[1:-1]
          inner == IF is_negative THEN SubSeq(value_str, 2, Len(value_str) - 1)
                   ELSE value_str
      IN  With(float(inner), LAMBDA value :
            IF value = NoneV THEN NoneV
            ELSE IF is_negative THEN Negated(value) ELSE value))

\* _extract_currency: a float, or NoneV
_extract_currency(text, pattern) ==
    IF ~Truthy(text) THEN NoneV
    ELSE With(re_search(pattern, text.s, IGNORECASE), LAMBDA match :
           IF match = <<>> THEN NoneV
           ELSE AmountValue(group(text.s, match, 1)))

\* _extract_number: a number, or NoneV
_extract_number(text, pattern) ==
    IF ~Truthy(text) THEN NoneV
    ELSE With(re_search(pattern, text.s, IGNORECASE), LAMBDA match :
           IF match # <<>>
           THEN Num(ToInt(Remove(group(text.s, match, 1), {","})))
           ELSE NoneV)

\* _ocr_extract: None without the OCR libraries or when the conversion raises,
\* else the recognised text of the pages
_ocr_extract(pdf) == IF pdf.ocr_available THEN pdf.ocr ELSE NoneV

\* dt.strftime("%m/%d/%Y") of a date strptime made, else what is tried next
Formatted(dt, otherwise) == IF dt # NoneV THEN strftime_mdY(dt) ELSE otherwise

\* models/bill_data.py normalize_mmddyyyy; "%-m/%-d/%Y" and "%-m/%-d/%y" are
\* formats strptime rejects
normalize_mmddyyyy(raw) ==
    With(strip(raw), LAMBDA date_str :
      LET parts == Slashes(date_str)
          two_digit_year == /\ Cardinality(parts) = 2
                            /\ Len(date_str) - Greatest(parts) = 2
          rejoined == IF two_digit_year
                      THEN SubSeq(date_str, 1, Greatest(parts)) \o S("20")
                           \o SubSeq(date_str, Greatest(parts) + 1, Len(date_str))
                      ELSE date_str
      IN  Formatted(strptime_mdY(date_str),
              Formatted(strptime_mdy(date_str),
                  Formatted(strptime_mdY(rejoined), date_str))))

\* BillData(...)
BillData(account_number, bill_date, due_date, total_due, service_address, current_usage_gallons, service_period, d, original_filename, bill_start_date, bill_end_date) ==
    [account_number |-> account_number, bill_date |-> bill_date,
     due_date |-> due_date, total_due |-> total_due,
     service_address |-> service_address,
     current_usage_gallons |-> current_usage_gallons,
     service_period |-> service_period, district |-> d,
     original_filename |-> original_filename,
     bill_start_date |-> bill_start_date, bill_end_date |-> bill_end_date]

\* f"{start_date} - {end_date}" if start_date and end_date else ""
ServicePeriod(dates) ==
    IF dates[1] # <<>> /\ dates[2] # <<>>
    THEN dates[1] \o S(" - ") \o dates[2]
    ELSE <<>>

-----------------------------------------------------------------------------
(* The district validity checks: nmwd.py 161-186, mmwd.py 91-116 *)

strong_nmwd_indicators == {S("NORTH MARIN WATER DISTRICT"), S("NORTH MARIN")}

strong_mmwd_indicators ==
    {S("MARIN MUNICIPAL"), S("220 NELLEN AVENUE"), S("CORTE MADERA"),
     S("MARINWATER.ORG")}

has_strong_nmwd(s) == \E indicator \in strong_nmwd_indicators : InStr(indicator, upper(s))
has_strong_mmwd(s) == \E indicator \in strong_mmwd_indicators : InStr(indicator, upper(s))

\* a faulty variant: only the district's name is looked for
_is_mmwd_bill_name_only(text) ==
    Truthy(text) /\ InStr(S("MARIN MUNICIPAL"), upper(text.s))

_is_nmwd_bill(text) ==
    IF ~Truthy(text) THEN FALSE
    ELSE IF has_strong_nmwd(text.s) /\ has_strong_mmwd(text.s)
    THEN InStr(S("NORTH MARIN"), upper(text.s))
    ELSE has_strong_nmwd(text.s) /\ ~has_strong_mmwd(text.s)

_is_mmwd_bill(text) ==
    IF ~Truthy(text) THEN FALSE
    ELSE IF has_strong_mmwd(text.s) /\ has_strong_nmwd(text.s)
    THEN InStr(S("MARIN MUNICIPAL"), upper(text.s))
    ELSE has_strong_mmwd(text.s) /\ ~has_strong_nmwd(text.s)

-----------------------------------------------------------------------------
(* NMWDExtractor: extractors/nmwd.py *)

\* [A-Z0-9\-]
AccountChars == Chars(UpperCase) \cup Digits \cup {"-"}

\* r'ACCOUNT(?:/CUSTOMER)? NUMBER[:\s]*([A-Z0-9\-]{6,})'
NMWD_account_pattern ==
    Lit("ACCOUNT") \o <<OptGroup(Lit("/CUSTOMER"))>> \o Lit(" NUMBER")
    \o <<Star({":"} \cup Whitespace)>> \o Cap(1, <<AtLeast(AccountChars, 6)>>)

\* r'Customer Number[:\s]*([A-Z0-9\-]{6,})'
NMWD_customer_pattern ==
    Lit("Customer Number") \o <<Star({":"} \cup Whitespace)>>
    \o Cap(1, <<AtLeast(AccountChars, 6)>>)

\* r'(\d{2}/\d{2}/\d{4})'
NMWD_bill_date_pattern == Cap(1, DateStrict)

\* r'DUE DATE[^$]*(\d{2}/\d{2}/\d{4})'
NMWD_due_date_pattern == Lit("DUE DATE") \o <<NotStar({"$"})>> \o Cap(1, DateStrict)

\* r'SERVICE ADDRESS.*?(\d+[^,\n]*)'
NMWD_address_pattern ==
    Lit("SERVICE ADDRESS") \o <<NotLazy({"\n"}, 0)>>
    \o Cap(1, <<Plus(Digits), NotStar({",", "\n"})>>)

\* r'CURRENT PERIOD:?\s*(\d{1,3}(?:,\d{3})*)'
NMWD_usage_pattern ==
    Lit("CURRENT PERIOD") \o <<Opt({":"}), Star(Whitespace)>> \o Cap(1, Thousands)

\* r'(\d{1,3}(?:,\d{3})*)\s+GAL'
NMWD_gallons_pattern == Cap(1, Thousands) \o <<Plus(Whitespace)>> \o Lit("GAL")

\* r'\$?\s*\(?(?:\d{1,3}(?:,\d{3})*|\d+)(?:\.\d{2})?\)?'
money_pat == <<Opt({"$"}), Star(Whitespace)>> \o Amount

\* r'(?:^|\n)\s*(?:TOTAL\s+(?:AMOUNT\s+)?DUE(?:\s+NOW)?)\s*[:\-]?\s*\$?\s*' and
\* r'(\(?(?:\d{1,3}(?:,\d{3})*|\d+)(?:\.\d{2})?\)?)'
strict_pattern ==
    <<Alt(<< <<Bol>>, Lit("\n") >>), Star(Whitespace)>>
    \o Lit("TOTAL")
    \o <<Plus(Whitespace), OptGroup(Lit("AMOUNT") \o <<Plus(Whitespace)>>)>>
    \o Lit("DUE")
    \o <<OptGroup(<<Plus(Whitespace)>> \o Lit("NOW")), Star(Whitespace),
         Opt({":", "-"}), Star(Whitespace), Opt({"$"}), Star(Whitespace)>>
    \o Cap(1, Amount)

\* the float of the last amount of a line, or NoneV: no amount, or ValueError
LastAmount(line) ==
    With(re_finditer(money_pat, line, NoFlags), LAMBDA amounts :
      IF amounts = <<>> THEN NoneV
      ELSE AmountValue(group(line, amounts[Len(amounts)], 0)))

\* the lines holding both TOTAL and DUE, in order
TotalDueLines(s) ==
    LET Labelled(raw_line) ==
            /\ InStr(S("TOTAL"), upper(strip(raw_line)))
            /\ InStr(S("DUE"), upper(strip(raw_line)))
    IN  SelectSeq(splitlines(s), Labelled)

\* a faulty variant: the loop does not stop, the last labelled line with an
\* amount decides
_extract_nmwd_total_due_no_break(s) ==
    LET Valued(raw_line) == LastAmount(strip(raw_line)) # NoneV
    IN  With(SelectSeq(TotalDueLines(s), Valued), LAMBDA valued :
          IF valued # <<>> THEN LastAmount(strip(valued[Len(valued)]))
          ELSE With(re_search(strict_pattern, s, Flags(TRUE, TRUE)),
                    LAMBDA strict_match :
                 IF strict_match # <<>>
                 THEN AmountValue(group(s, strict_match, 1))
                 ELSE NoneV))

\* _extract_nmwd_total_due: the loop stops at the first labelled line whose last
\* amount is a float; without one the strict pattern is searched in the text
_extract_nmwd_total_due(s) ==
    LET Valued(raw_line) == LastAmount(strip(raw_line)) # NoneV
    IN  With(SelectSeq(TotalDueLines(s), Valued), LAMBDA valued :
          IF valued # <<>> THEN LastAmount(strip(valued[1]))
          ELSE With(re_search(strict_pattern, s, Flags(TRUE, TRUE)),
                    LAMBDA strict_match :
                 IF strict_match # <<>>
                 THEN AmountValue(group(s, strict_match, 1))
                 ELSE NoneV))

\* _normalize_date: a two-digit year gets "20" in front; what strptime rejects
\* is returned as it then stands
_normalize_date(raw) ==
    LET parts == Slashes(raw)
        date_str == IF /\ Cardinality(parts) = 2
                       /\ Len(raw) - Greatest(parts) = 2
                    THEN SubSeq(raw, 1, Greatest(parts)) \o S("20")
                         \o SubSeq(raw, Greatest(parts) + 1, Len(raw))
                    ELSE raw
    IN  With(date_str, LAMBDA d : Formatted(strptime_mdY(d), d))

\* (\d{1,2}/\d{1,2}/\d{2,4})\s*[-–]\s*(\d{1,2}/\d{1,2}/\d{2,4})
DateDashDate ==
    Cap(1, DateLoose) \o <<Star(Whitespace), One({"-", EnDash}), Star(Whitespace)>>
    \o Cap(2, DateLoose)

\* the five patterns of _extract_nmwd_period_dates, in order
NMWD_period_patterns ==
    << Lit("SERVICE") \o <<Plus(Whitespace)>> \o Lit("PERIOD")
         \o <<Star({":"} \cup Whitespace)>> \o DateDashDate,
       Lit("BILLING") \o <<Plus(Whitespace)>> \o Lit("PERIOD")
         \o <<Star({":"} \cup Whitespace)>> \o DateDashDate,
       <<Alt(<<Lit("SERVICE"), Lit("BILLING"), Lit("PERIOD")>>), AnyLazy>>
         \o Lit("FROM") \o <<Plus(Whitespace)>> \o Cap(1, DateLoose)
         \o <<Plus(Whitespace)>> \o Lit("TO") \o <<Plus(Whitespace)>>
         \o Cap(2, DateLoose),
       Lit("CURRENT") \o <<Plus(Whitespace)>> \o Lit("PERIOD") \o <<AnyLazy>>
         \o DateDashDate,
       <<Alt(<<Lit("Service"), Lit("Billing")>>), AnyLazy>> \o DateDashDate >>

HasKeyword(line, keywords) == \E keyword \in keywords : InStr(keyword, upper(line))

\* the fallback of _extract_nmwd_period_dates: the first two dates of the first
\* line that names a period and no due date and holds two dates
NMWD_period_fallback(normalized_text) ==
    LET Candidate(line) ==
            /\ ~HasKeyword(line, {S("DUE"), S("PAYMENT"), S("BILL DATE"), S("INVOICE")})
            /\ HasKeyword(line, {S("PERIOD"), S("SERVICE"), S("USAGE"), S("CURRENT")})
            /\ Len(re_finditer(DateLoose, line, NoFlags)) >= 2
    IN  With(SelectSeq(split_lines(normalized_text), Candidate), LAMBDA lines :
          IF lines = <<>> THEN << <<>>, <<>> >>
          ELSE With(re_finditer(DateLoose, lines[1], NoFlags), LAMBDA date_matches :
                 << _normalize_date(group(lines[1], date_matches[1], 0)),
                    _normalize_date(group(lines[1], date_matches[2], 0)) >>))

\* _extract_nmwd_period_dates: <<start_date, end_date>>
_extract_nmwd_period_dates(s) ==
    With(normalize_dashes(s), LAMBDA normalized_text :
      With({i \in 1..Len(NMWD_period_patterns) :
               re_search(NMWD_period_patterns[i], normalized_text,
                         IGNORECASE) # <<>>},
           LAMBDA found :
        IF found # {}
        THEN With(re_search(NMWD_period_patterns[Least(found)], normalized_text,
                            IGNORECASE),
                  LAMBDA match :
               << _normalize_date(group(normalized_text, match, 1)),
                  _normalize_date(group(normalized_text, match, 2)) >>)
        ELSE NMWD_period_fallback(normalized_text)))

NMWD_account_number(text) ==
    PyOr(_extract_pattern(text, NMWD_account_pattern),
         _extract_pattern(text, NMWD_customer_pattern))

\* a faulty variant: the dated pattern is tried before the phrase
NMWD_due_date_dated_first(text) ==
    PyOr(_extract_pattern(text, NMWD_due_date_pattern), Str(S("Upon Receipt")))

NMWD_due_date(text) ==
    IF InStr(S("Upon Receipt"), text.s) THEN Str(S("Upon Receipt"))
    ELSE _extract_pattern(text, NMWD_due_date_pattern)

NMWD_current_usage(text) ==
    PyOr(PyOr(_extract_number(text, NMWD_usage_pattern),
              _extract_number(text, NMWD_gallons_pattern)),
         Num(0))

\* a faulty variant: a bill without a bill date is given up
NMWD_record_need_bill_date(account_number, bill_date, due_date, total_due, service_address, current_usage, dates, filename) ==
    IF ~Truthy(account_number) \/ total_due = NoneV \/ ~Truthy(bill_date)
    THEN NoneV
    ELSE BillData(account_number.s, OrEmpty(bill_date),
                  PyOr(due_date, Str(S("Upon Receipt"))).s, total_due,
                  OrEmpty(service_address), current_usage.n,
                  ServicePeriod(dates), NorthMarin, filename,
                  dates[1], dates[2])

\* lines 67-82 of extract_data: None without an account number or a total due,
\* else the record, a field that was not found as "" ("Upon Receipt", 0)
NMWD_record(account_number, bill_date, due_date, total_due, service_address, current_usage, dates, filename) ==
    IF ~Truthy(account_number) \/ total_due = NoneV THEN NoneV
    ELSE BillData(account_number.s, OrEmpty(bill_date),
                  PyOr(due_date, Str(S("Upon Receipt"))).s, total_due,
                  OrEmpty(service_address), current_usage.n,
                  ServicePeriod(dates), NorthMarin, filename,
                  dates[1], dates[2])

\* lines 40-82 of extract_data: the fields of an accepted text, and the record
\* or None
NMWD_fields(text, filename) ==
    NMWD_record(NMWD_account_number(text),
                _extract_pattern(text, NMWD_bill_date_pattern),
                NMWD_due_date(text),
                _extract_nmwd_total_due(text.s),
                _extract_pattern(text, NMWD_address_pattern),
                NMWD_current_usage(text),
                _extract_nmwd_period_dates(text.s),
                filename)

-----------------------------------------------------------------------------
(* MMWDExtractor: extractors/mmwd.py *)

gallons_per_unit == 748

\* r'Customer Number:?\s*(\d+)'
MMWD_account_pattern ==
    Lit("Customer Number") \o <<Opt({":"}), Star(Whitespace)>>
    \o Cap(1, <<Plus(Digits)>>)

\* r'Billing Date:?\s*(\d{2}/\d{2}/\d{4})'
MMWD_bill_date_pattern ==
    Lit("Billing Date") \o <<Opt({":"}), Star(Whitespace)>> \o Cap(1, DateStrict)

\* r'Current Charges Due By:?\s*(\d{2}/\d{2}/\d{4})'
MMWD_due_date_pattern ==
    Lit("Current Charges Due By") \o <<Opt({":"}), Star(Whitespace)>>
    \o Cap(1, DateStrict)

\* r'TOTAL DUE:?\s*\$?([\d,]+\.?\d*)'
MMWD_total_due_pattern ==
    Lit("TOTAL DUE") \o <<Opt({":"}), Star(Whitespace), Opt({"$"})>>
    \o Cap(1, <<Plus(Digits \cup {","}), Opt({"."}), Star(Digits)>>)

\* r'Service Address:?\s+(.+?)(?=\n)'
MMWD_address_pattern ==
    Lit("Service Address") \o <<Opt({":"}), Plus(Whitespace)>>
    \o Cap(1, <<NotLazy({"\n"}, 1)>>) \o <<Ahead(Lit("\n"))>>

\* r'Water Use\s+Units\*\s+(\d+)'
MMWD_units_pattern ==
    Lit("Water Use") \o <<Plus(Whitespace)>> \o Lit("Units*")
    \o <<Plus(Whitespace)>> \o Cap(1, <<Plus(Digits)>>)

\* r'(\d+)\s+(\d+(?:\s*1/2)?\")\s+(\d+)\s+(\d+)\s+(\d+)'
MMWD_table_pattern ==
    Cap(1, <<Plus(Digits)>>) \o <<Plus(Whitespace)>>
    \o Cap(2, <<Plus(Digits), OptGroup(<<Star(Whitespace)>> \o Lit("1/2")),
                One({"\""})>>)
    \o <<Plus(Whitespace)>> \o Cap(3, <<Plus(Digits)>>)
    \o <<Plus(Whitespace)>> \o Cap(4, <<Plus(Digits)>>)
    \o <<Plus(Whitespace)>> \o Cap(5, <<Plus(Digits)>>)

\* lines 52-62: the scan stops at the first "Water Use" line, two lines at least
\* before the end, that a "Units*" line follows; the count is the first of the
\* next three lines that holds only a number
MMWD_units_line_scan(s) ==
    With(split_lines(s), LAMBDA lines :
      With({i \in 1..Len(lines) :
               /\ InStr(S("Water Use"), lines[i])
               /\ i + 2 <= Len(lines)
               /\ InStr(S("Units*"), lines[i + 1])},
           LAMBDA labels :
        IF labels = {} THEN 0
        ELSE With({j \in (Least(labels) + 2)..Min2(Least(labels) + 4, Len(lines)) :
                      /\ strip(lines[j]) # <<>>
                      /\ AllDigits(strip(lines[j]))},
                  LAMBDA numbers :
               IF numbers = {} THEN 0
               ELSE ToInt(strip(lines[Least(numbers)])))))

\* a faulty variant: the table row is tried before the labelled units
MMWD_current_units_table_first(s) ==
    With(re_search(MMWD_table_pattern, s, NoFlags), LAMBDA table_match :
      IF table_match # <<>> THEN ToInt(group(s, table_match, 5))
      ELSE With(re_search(MMWD_units_pattern, s, IGNORECASE), LAMBDA units_match :
             IF units_match # <<>> THEN ToInt(group(s, units_match, 1))
             ELSE MMWD_units_line_scan(s)))

\* lines 40-62: the unit count of the first strategy that finds one, else 0
MMWD_current_units(s) ==
    With(re_search(MMWD_units_pattern, s, IGNORECASE), LAMBDA units_match :
      IF units_match # <<>> THEN ToInt(group(s, units_match, 1))
      ELSE With(re_search(MMWD_table_pattern, s, NoFlags), LAMBDA table_match :
             IF table_match # <<>> THEN ToInt(group(s, table_match, 5))
             ELSE MMWD_units_line_scan(s)))

\* (\d{1,2}/\d{1,2}/\d{2,4})\s*(?:to|-)\s*(\d{1,2}/\d{1,2}/\d{2,4})
DateToDate ==
    Cap(1, DateLoose)
    \o <<Star(Whitespace), Alt(<<Lit("to"), Lit("-")>>), Star(Whitespace)>>
    \o Cap(2, DateLoose)

\* r'Meter\s*Read\s*Date\s*[:\-]?\s*' r'(?:\n|\r|\s)*' and the two dates
MMWD_meter_read_pattern ==
    Lit("Meter") \o <<Star(Whitespace)>> \o Lit("Read") \o <<Star(Whitespace)>>
    \o Lit("Date")
    \o <<Star(Whitespace), Opt({":", "-"}), Star(Whitespace),
         StarGroup(<<Alt(<<Lit("\n"), Lit("\r"), <<One(Whitespace)>> >>)>>)>>
    \o DateToDate

\* _extract_mmwd_meter_read_dates: <<start, end>>
_extract_mmwd_meter_read_dates(s) ==
    LET Labelled(line) ==
            /\ InStr(S("METER"), upper(line))
            /\ InStr(S("READ"), upper(line))
            /\ InStr(S("DATE"), upper(line))
            /\ re_search(DateToDate, line, IGNORECASE) # <<>>
    IN  With(normalize_dashes(s), LAMBDA normalized_text :
          With(re_search(MMWD_meter_read_pattern, normalized_text, IGNORECASE),
               LAMBDA match :
            IF match # <<>>
            THEN << normalize_mmddyyyy(group(normalized_text, match, 1)),
                    normalize_mmddyyyy(group(normalized_text, match, 2)) >>
            ELSE With(SelectSeq(splitlines(normalized_text), Labelled), LAMBDA lines :
                   IF lines # <<>>
                   THEN With(re_search(DateToDate, lines[1], IGNORECASE),
                             LAMBDA fallback_match :
                          << normalize_mmddyyyy(group(lines[1], fallback_match, 1)),
                             normalize_mmddyyyy(group(lines[1], fallback_match, 2)) >>)
                   ELSE << <<>>, <<>> >>)))

\* lines 70-85 of extract_data: None without an account number or a total due,
\* else the record, a field that was not found as ""
MMWD_record(account_number, bill_date, due_date, total_due, service_address, current_usage_gallons, dates, filename) ==
    IF ~Truthy(account_number) \/ total_due = NoneV THEN NoneV
    ELSE BillData(account_number.s, OrEmpty(bill_date), due_date.s,
                  total_due, OrEmpty(service_address),
                  current_usage_gallons, ServicePeriod(dates),
                  MarinMunicipal, filename, dates[1], dates[2])

\* lines 31-85 of extract_data: the fields of an accepted text, and the record
\* or None
MMWD_fields(text, filename) ==
    MMWD_record(_extract_pattern(text, MMWD_account_pattern),
                _extract_pattern(text, MMWD_bill_date_pattern),
                PyOr(_extract_pattern(text, MMWD_due_date_pattern),
                     Str(S("Upon Receipt"))),
                _extract_currency(text, MMWD_total_due_pattern),
                _extract_pattern(text, MMWD_address_pattern),
                MMWD_current_units(text.s) * gallons_per_unit,
                _extract_mmwd_meter_read_dates(text.s),
                filename)

-----------------------------------------------------------------------------
(* FileRenamer: processors/file_renamer.py *)

\* c.isalnum(), for the characters of the model's texts
IsAlnum(c) == c \in Digits \cup Chars(LowerCase) \cup Chars(UpperCase)

\* date_obj.strftime("%y%m%d")
strftime_ymd(dt) == Pad(dt.y % 100, 2) \o Pad(dt.m, 2) \o Pad(dt.d, 2)

\* "".join(c for c in filename if c.isalnum() or c in " #.-_")
KeepFilenameChars(filename) ==
    LET Kept(c) == IsAlnum(c) \/ c \in {" ", "#", ".", "-", "_"}
    IN  SelectSeq(filename, Kept)

\* the name of a bill by its district, after the date
NameByDistrict(date_str, bill_data) ==
    IF bill_data.district = NorthMarin
    THEN date_str \o S(" Account #") \o bill_data.account_number \o S(".pdf")
    ELSE IF bill_data.district = MarinMunicipal
    THEN date_str \o S(" MMWD ") \o bill_data.account_number \o S(".pdf")
    ELSE date_str \o S(" ") \o bill_data.account_number \o S(".pdf")

\* a faulty variant: the year is written in full
generate_filename_full_year(bill_data) ==
    With(strptime_mdY(bill_data.bill_date), LAMBDA date_obj :
      KeepFilenameChars(
        NameByDistrict(IF date_obj # NoneV
                       THEN Pad(date_obj.y, 4) \o Pad(date_obj.m, 2)
                            \o Pad(date_obj.d, 2)
                       ELSE S("000000"),
                       bill_data)))

\* generate_filename: strptime raises on a date it cannot parse, and the date
\* is then "000000"
generate_filename(bill_data) ==
    With(strptime_mdY(bill_data.bill_date), LAMBDA date_obj :
      KeepFilenameChars(
        NameByDistrict(IF date_obj # NoneV THEN strftime_ymd(date_obj)
                       ELSE S("000000"),
                       bill_data)))

-----------------------------------------------------------------------------
(* Inputs: the templates and the batches the model draws from *)

NRows == 2          \* template rows inside the scanned range
MaxBatch == 2       \* longest batch of one call

\* the nine cells of a template row beside its account cell, by column
FillBlank == [c \in Columns |-> NoneV]

FillPartial ==
    [c \in Columns |->
        CASE c = 1  -> DateV(2024, 1, 31)
          [] c = 2  -> Str(S(" "))
          [] c = 4  -> Str(S("Gas"))
          [] c = 5  -> Str(<<>>)
          [] c = 6  -> Str(S("V1"))
          [] c = 9  -> Str(S("  "))
          [] c = 10 -> Num(0)
          [] OTHER  -> NoneV]

FillFull ==
    [c \in Columns |->
        CASE c = 1  -> DateV(2024, 1, 31)
          [] c = 9  -> Num(999)
          [] c = 10 -> Num(5)
          [] OTHER  -> Str(S("old"))]

TemplateRow(acct, fill) == [fill EXCEPT ![account_col] = Str(S(acct))]

\* the rows a template is built from: an account with its cells empty, partly
\* filled (amount still blank) or filled; a row without an account; a row whose
\* account cell holds only a space; a row whose account cell holds no digit
RowShapes ==
    { TemplateRow("12", FillBlank),
      TemplateRow("12", FillFull),
      TemplateRow("12-3", FillPartial),
      FillBlank,
      TemplateRow(" ", FillPartial),
      TemplateRow("N/A", FillBlank) }

ScannedRows == start_row..(start_row + NRows - 1)

\* a row just past the scanned range, holding an account and nothing else
FarRow == start_row + scan_rows

WithFarRow(w) ==
    [r \in ScannedRows \cup {FarRow} |->
        IF r = FarRow THEN TemplateRow("12", FillBlank) ELSE w[r]]

\* every filling of the scanned rows, and, with the far row added, those in which
\* the scanned rows are all alike
Templates ==
    { Sheet(w) : w \in [ScannedRows -> RowShapes] }
    \cup { Sheet(WithFarRow([r \in ScannedRows |-> shape])) : shape \in RowShapes }

Bill(acct, date, total, addr, gallons, period, d, file) ==
    [account_number |-> S(acct), bill_date |-> S(date),
     due_date |-> S("Upon Receipt"), total_due |-> total,
     service_address |-> S(addr), current_usage_gallons |-> gallons,
     service_period |-> S(period), district |-> d, original_filename |-> file,
     bill_start_date |-> <<>>, bill_end_date |-> <<>>]

\* generate_excel_report does not read a bill's district
BillPool ==
    { Bill("12", "09/15/2025", 1050, "1 Main St", 748, "08/01/2025 - 09/01/2025",
           NorthMarin, "a.pdf"),
      Bill("4", "02/30/2025", 7, "2 Oak Ave", 1496, "", NorthMarin, "b.pdf"),
      Bill("ABC-DEF", "", -250, "", 0, "", MarinMunicipal, "c.pdf") }

Batches == UNION { [1..n -> BillPool] : n \in 1..MaxBatch }

MaxLines == 2       \* most lines of a page below its heading

\* the first line of a page: the name of one district or of the other, the web
\* address of Marin Municipal, a heading that names no district, and two that
\* mention both districts: Marin Municipal's name with a mention of North
\* Marin, North Marin's name with a town of Marin Municipal
Headings ==
    { S("North Marin Water District"),
      S("Marin Municipal Water District"),
      S("Pay at marinwater.org"),
      S("Water Bill"),
      S("Marin Municipal Water District (not North Marin)"),
      S("North Marin Water District, Corte Madera") }

\* the lines below it: an account number only North Marin's labels find, one
\* both extractors find, alone and with a bill date; a total due both find and
\* one neither can turn into a number; an address with a usage
PageLines ==
    { S("ACCOUNT NUMBER: 12-3456"),
      S("Customer Number: 495805"),
      S("Customer Number: 495805 Billing Date: 08/11/2025"),
      S("TOTAL DUE: $1,050.00"),
      S("TOTAL DUE (12.00"),
      S("SERVICE ADDRESS: 12 Oak St 1,234 GAL") }

\* "\n".join(lines)
RECURSIVE JoinLines(_)
JoinLines(lines) ==
    IF Len(lines) = 1 THEN lines[1]
    ELSE lines[1] \o S("\n") \o JoinLines(Tail(lines))

\* the lines of a page: no line twice
Pages ==
    UNION { { <<h>> \o body :
                body \in { b \in [1..n -> PageLines] :
                              \A i, j \in 1..n : b[i] = b[j] => i = j },
                h \in Headings } : n \in 0..MaxLines }

NorthMarinBill ==
    <<S("North Marin Water District"), S("ACCOUNT NUMBER: 12-3456"),
      S("TOTAL DUE: $1,050.00")>>

MarinMunicipalBill ==
    <<S("Pay at marinwater.org"),
      S("Customer Number: 495805 Billing Date: 08/11/2025"),
      S("TOTAL DUE: $1,050.00")>>

\* the lines of a bill that speak of its due date: a date under North Marin's
\* label, one under Marin Municipal's, a date under neither, and the phrase
DueDateLines ==
    { S("DUE DATE: 09/30/2025"),
      S("Current Charges Due By: 09/30/2025"),
      S("Pay by 10/15/2025"),
      S("Payable Upon Receipt") }

\* a bill of either district followed by one or two of these lines
DueDateBills ==
    { bill \o lines :
        bill \in {NorthMarinBill, MarinMunicipalBill},
        lines \in { <<a>> : a \in DueDateLines }
                   \cup { ab \in DueDateLines \X DueDateLines : ab[1] # ab[2] } }

\* the lines of a bill that speak of its total: a label whose amount is cut
\* short, a label alone, an amount alone, a line of several amounts that ends
\* with one in parentheses, a label with "NOW", a line without the label, and
\* the label both extractors search with an amount in parentheses and with one
\* in dollars
TotalLines ==
    { S("TOTAL DUE (12.00"),
      S("TOTAL AMOUNT DUE"),
      S("$75.00"),
      S("TOTAL DUE 08/11 $20.00 (1,234.56)"),
      S("Total Due Now: $99.00"),
      S("Balance forward $5.00"),
      S("TOTAL DUE: (1,234.56)"),
      S("TOTAL DUE: $1,234.56") }

\* the heading and the account line of a bill of either district, followed by
\* one or two of these lines
TotalDueBills ==
    { SubSeq(bill, 1, 2) \o lines :
        bill \in {NorthMarinBill, <<S("Marin Municipal Water District"),
                                     S("Customer Number: 495805")>>},
        lines \in { <<a>> : a \in TotalLines }
                   \cup { ab \in TotalLines \X TotalLines : ab[1] # ab[2] } }

\* the lines of a Marin Municipal bill that give its usage: the labelled
\* units, a row of the meter table, the label and the count on lines of their
\* own, the same with lines in between, and the label without a count
UsageBlocks ==
    { <<S("Water Use Units* 12")>>,
      <<S("12345 1\" 100 117 17")>>,
      <<S("Water Use:"), S("Units*"), S("23")>>,
      <<S("Water Use:"), S("Units*"), S(""), S("ccf"), S(" 34 ")>>,
      <<S("Water Use:"), S("Units*"), S("n/a")>>,
      <<>> }

\* a Marin Municipal bill followed by two of these blocks
UsageBills ==
    { MarinMunicipalBill \o a \o b : a \in UsageBlocks, b \in UsageBlocks }

\* the bills that are given line by line
SampleBills == DueDateBills \cup TotalDueBills \cup UsageBills

\* what page one's text layer yields: the text of a page, "" or None
TextLayers ==
    { Str(JoinLines(lines)) : lines \in Pages \cup SampleBills }
    \cup {Str(<<>>), NoneV}

\* what recognition yields on a scanned page: None when the conversion raises,
\* else the text of each page with a line break after it
Recognised ==
    { NoneV, Str(S("Water Bill\n")),
      Str(JoinLines(NorthMarinBill) \o S("\n")),
      Str(JoinLines(MarinMunicipalBill) \o S("\n")) }

\* the text layers of the files that are scanned, or that are read again
ScannedLayers ==
    { NoneV, Str(<<>>), Str(S("Water Bill")), Str(JoinLines(MarinMunicipalBill)) }

PdfFile(readable, layer, ocr_available, ocr) ==
    [name |-> "bill.pdf", readable |-> readable, text |-> layer,
     ocr_available |-> ocr_available, ocr |-> ocr]

\* a file pdfplumber cannot open, or without a page
UnreadableFile == PdfFile(FALSE, NoneV, FALSE, NoneV)

\* the files: every text layer without the OCR libraries, the scanned layers
\* with them, and a file that cannot be read
Files ==
    { PdfFile(TRUE, layer, FALSE, NoneV) : layer \in TextLayers }
    \cup { PdfFile(TRUE, layer, TRUE, ocr) :
              layer \in ScannedLayers, ocr \in Recognised }
    \cup {UnreadableFile}

-----------------------------------------------------------------------------
(* generate_excel_report, step by step.  A behaviour is one session: a       *)
(* district, its template and a selection of bills, reconciled any number   *)
(* of times; a call may also be handed no bills at all.                     *)

Init ==
    /\ district \in Districts
    /\ selection \in Batches
    /\ template \in Templates \cup {Absent}
    /\ reportFile = Absent
    /\ has_last_unmatched = FALSE
    /\ last_unmatched = <<>>
    /\ pc = "idle"
    /\ bills = <<>>
    /\ idx = 1
    /\ worksheet = <<>>
    /\ excel_accounts = <<>>
    /\ target_row = 0
    /\ matched_count = 0
    /\ ret = NoneV
    /\ saves = 0
    /\ outcome = "none"
    /\ pdf_file = UnreadableFile
    /\ extractor = "NMWD"
    /\ epc = "idle"
    /\ cur_text = NoneV
    /\ returned = NoneV
    /\ call = NoCall
    /\ result = Pending
    /\ NoRun

\* a faulty variant: a report saved earlier is loaded in place of the template
LoadWorkbook_from_report ==
    IF reportFile.t = "sheet" THEN reportFile.rows ELSE template.rows

LoadWorkbook == template.rows

\* the locals of the call are gone once it has returned
Return(r, how) ==
    /\ pc' = "idle"
    /\ ret' = r
    /\ outcome' = how
    /\ bills' = <<>>
    /\ worksheet' = <<>>
    /\ excel_accounts' = <<>>
    /\ idx' = 1
    /\ target_row' = 0
    /\ matched_count' = 0
    /\ UNCHANGED <<district, selection, template>>
    /\ UNCHANGED <<extractVars, callVars, runVars>>

\* lines 62-64: an empty batch returns before last_unmatched is reset
CallNoBills ==
    /\ pc = "idle"
    /\ saves' = 0
    /\ Return(NoneV, "no_bills")
    /\ UNCHANGED <<reportFile, has_last_unmatched, last_unmatched>>

\* lines 66-85: the unmatched list is reset; the template file is absent
CallNoTemplate ==
    /\ pc = "idle"
    /\ selection # <<>>
    /\ template = Absent
    /\ has_last_unmatched' = TRUE
    /\ last_unmatched' = <<>>
    /\ saves' = 0
    /\ Return(NoneV, "no_template")
    /\ UNCHANGED reportFile

\* lines 66-124: reset the unmatched list, load the template, scan the accounts
CallLoad ==
    /\ pc = "idle"
    /\ selection # <<>>
    /\ template # Absent
    /\ bills' = selection
    /\ has_last_unmatched' = TRUE
    /\ last_unmatched' = <<>>
    /\ worksheet' = LoadWorkbook
    /\ excel_accounts' = ScanAccounts(worksheet')
    /\ idx' = 1
    /\ target_row' = 0
    /\ matched_count' = 0
    /\ ret' = NoneV
    /\ outcome' = "running"
    /\ saves' = 0
    /\ pc' = "loop"
    /\ UNCHANGED <<district, selection, template, reportFile>>
    /\ UNCHANGED <<extractVars, callVars, runVars>>

\* lines 126-152: one iteration of the loop over the bills
ProcessBill ==
    /\ pc = "loop"
    /\ idx <= Len(bills)
    /\ LET bill == bills[idx]
           t == FindTargetRow(worksheet, excel_accounts, bill.account_number)
       IN  /\ target_row' = t
           /\ IF t # 0
              THEN /\ worksheet' = _populate_row(worksheet, t, bill,
                                                 DISTRICT_CONFIG(district))
                   /\ matched_count' = matched_count + 1
                   /\ UNCHANGED last_unmatched
              ELSE /\ last_unmatched' =
                          Append(last_unmatched,
                                 <<bill.account_number, bill.original_filename>>)
                   /\ UNCHANGED <<worksheet, matched_count>>
    /\ idx' = idx + 1
    /\ UNCHANGED <<district, selection, template, reportFile, has_last_unmatched, pc, bills,
                   excel_accounts, ret, saves, outcome>>
    /\ UNCHANGED <<extractVars, callVars, runVars>>

AtSave == pc = "loop" /\ idx > Len(bills)

\* lines 166-172: the output directory cannot be created
MkdirFails ==
    /\ AtSave
    /\ Return(NoneV, "mkdir_failed")
    /\ UNCHANGED <<reportFile, saves, has_last_unmatched, last_unmatched>>

\* a faulty variant: the lock test opens the file for writing, which empties it
FileLocked_truncates ==
    /\ AtSave
    /\ reportFile # Absent
    /\ reportFile' = Corrupt
    /\ Return(NoneV, "locked")
    /\ UNCHANGED <<saves, has_last_unmatched, last_unmatched>>

\* lines 174-185: the report file exists and cannot be opened for appending
FileLocked ==
    /\ AtSave
    /\ reportFile # Absent
    /\ Return(NoneV, "locked")
    /\ UNCHANGED <<reportFile, saves, has_last_unmatched, last_unmatched>>

\* lines 187-193: the workbook is saved over the report file
SaveOk ==
    /\ AtSave
    /\ reportFile' = Sheet(worksheet)
    /\ saves' = saves + 1
    /\ Return(Path(_generate_output_path(district)), "saved")
    /\ UNCHANGED <<has_last_unmatched, last_unmatched>>

\* a faulty variant: the error path resets the unmatched list
SavePermissionError_resets ==
    /\ AtSave
    /\ last_unmatched' = <<>>
    /\ Return(NoneV, "save_permission")
    /\ UNCHANGED <<reportFile, saves, has_last_unmatched>>

\* lines 194-197: save raises PermissionError; the file is not opened for writing
SavePermissionError ==
    /\ AtSave
    /\ Return(NoneV, "save_permission")
    /\ UNCHANGED <<reportFile, saves, has_last_unmatched, last_unmatched>>

\* lines 198-200: save raises another error; what it left of the file is unknown
SaveError ==
    /\ AtSave
    /\ reportFile' \in {reportFile, Corrupt}
    /\ Return(NoneV, "save_error")
    /\ UNCHANGED <<saves, has_last_unmatched, last_unmatched>>

generate_excel_report ==
    \/ CallNoBills
    \/ CallNoTemplate
    \/ CallLoad
    \/ ProcessBill
    \/ MkdirFails
    \/ FileLocked
    \/ SaveOk
    \/ SavePermissionError
    \/ SaveError

Next == generate_excel_report

Spec == Init /\ [][Next]_vars

-----------------------------------------------------------------------------
(* extract_data of the two extractors, step by step.  A behaviour is one     *)
(* call: an extractor is handed a file.                                      *)

InitExtract ==
    /\ pdf_file \in Files
    /\ extractor \in {"NMWD", "MMWD"}
    /\ epc = "call"
    /\ cur_text = NoneV
    /\ returned = NoneV
    /\ district = NorthMarin
    /\ selection = <<>>
    /\ template = Absent
    /\ reportFile = Absent
    /\ has_last_unmatched = FALSE
    /\ last_unmatched = <<>>
    /\ pc = "idle"
    /\ bills = <<>>
    /\ idx = 1
    /\ worksheet = <<>>
    /\ excel_accounts = <<>>
    /\ target_row = 0
    /\ matched_count = 0
    /\ ret = NoneV
    /\ saves = 0
    /\ outcome = "none"
    /\ call = NoCall
    /\ result = Pending
    /\ NoRun

\* extract_data returns r
Returns(r) ==
    /\ returned' = r
    /\ epc' = "done"

\* nmwd.py 23-24: the file is opened and page one's text layer read
NMWD_ReadText ==
    /\ extractor = "NMWD"
    /\ epc = "call"
    /\ pdf_file.readable
    /\ cur_text' = pdf_file.text
    /\ epc' = "check"
    /\ UNCHANGED <<pdf_file, extractor, returned>>
    /\ UNCHANGED <<excelVars, callVars, runVars>>

\* nmwd.py 84-86: opening or reading the file raises
NMWD_ReadFails ==
    /\ extractor = "NMWD"
    /\ epc = "call"
    /\ ~pdf_file.readable
    /\ Returns(NoneV)
    /\ UNCHANGED <<pdf_file, extractor, cur_text>>
    /\ UNCHANGED <<excelVars, callVars, runVars>>

\* a faulty variant: every rejected text sends the file to recognition
NMWD_CheckText_always_recognise ==
    /\ extractor = "NMWD"
    /\ epc = "check"
    /\ epc' = IF _is_nmwd_bill(cur_text) THEN "extract" ELSE "ocr"
    /\ UNCHANGED <<pdf_file, extractor, cur_text, returned>>
    /\ UNCHANGED <<excelVars, callVars, runVars>>

\* nmwd.py 26-33: a rejected text is given up unless it is empty, which sends
\* the file to recognition
NMWD_CheckText ==
    /\ extractor = "NMWD"
    /\ epc = "check"
    /\ IF _is_nmwd_bill(cur_text)
       THEN epc' = "extract" /\ UNCHANGED returned
       ELSE IF ~Truthy(cur_text)
       THEN epc' = "ocr" /\ UNCHANGED returned
       ELSE Returns(NoneV)
    /\ UNCHANGED <<pdf_file, extractor, cur_text>>
    /\ UNCHANGED <<excelVars, callVars, runVars>>

\* nmwd.py 29-31: the recognised text replaces the text and is checked
NMWD_Recognise ==
    /\ extractor = "NMWD"
    /\ epc = "ocr"
    /\ cur_text' = _ocr_extract(pdf_file)
    /\ IF _is_nmwd_bill(cur_text')
       THEN epc' = "extract" /\ UNCHANGED returned
       ELSE Returns(NoneV)
    /\ UNCHANGED <<pdf_file, extractor>>
    /\ UNCHANGED <<excelVars, callVars, runVars>>

\* nmwd.py 35-82: the fields are extracted and the record is built, or not
NMWD_Extract ==
    /\ extractor = "NMWD"
    /\ epc = "extract"
    /\ IF ~Truthy(cur_text) THEN Returns(NoneV)
       ELSE Returns(NMWD_fields(cur_text, pdf_file.name))
    /\ UNCHANGED <<pdf_file, extractor, cur_text>>
    /\ UNCHANGED <<excelVars, callVars, runVars>>

NMWD_extract_data ==
    \/ NMWD_ReadText
    \/ NMWD_ReadFails
    \/ NMWD_CheckText
    \/ NMWD_Recognise
    \/ NMWD_Extract

\* mmwd.py 20-21
MMWD_ReadText ==
    /\ extractor = "MMWD"
    /\ epc = "call"
    /\ pdf_file.readable
    /\ cur_text' = pdf_file.text
    /\ epc' = "check"
    /\ UNCHANGED <<pdf_file, extractor, returned>>
    /\ UNCHANGED <<excelVars, callVars, runVars>>

\* mmwd.py 87-89
MMWD_ReadFails ==
    /\ extractor = "MMWD"
    /\ epc = "call"
    /\ ~pdf_file.readable
    /\ Returns(NoneV)
    /\ UNCHANGED <<pdf_file, extractor, cur_text>>
    /\ UNCHANGED <<excelVars, callVars, runVars>>

\* mmwd.py 23: every rejected text sends the file to recognition
MMWD_CheckText ==
    /\ extractor = "MMWD"
    /\ epc = "check"
    /\ epc' = IF _is_mmwd_bill(cur_text) THEN "extract" ELSE "ocr"
    /\ UNCHANGED <<pdf_file, extractor, cur_text, returned>>
    /\ UNCHANGED <<excelVars, callVars, runVars>>

\* mmwd.py 24-26
MMWD_Recognise ==
    /\ extractor = "MMWD"
    /\ epc = "ocr"
    /\ cur_text' = _ocr_extract(pdf_file)
    /\ IF _is_mmwd_bill(cur_text')
       THEN epc' = "extract" /\ UNCHANGED returned
       ELSE Returns(NoneV)
    /\ UNCHANGED <<pdf_file, extractor>>
    /\ UNCHANGED <<excelVars, callVars, runVars>>

\* mmwd.py 28-85
MMWD_Extract ==
    /\ extractor = "MMWD"
    /\ epc = "extract"
    /\ IF ~Truthy(cur_text) THEN Returns(NoneV)
       ELSE Returns(MMWD_fields(cur_text, pdf_file.name))
    /\ UNCHANGED <<pdf_file, extractor, cur_text>>
    /\ UNCHANGED <<excelVars, callVars, runVars>>

MMWD_extract_data ==
    \/ MMWD_ReadText
    \/ MMWD_ReadFails
    \/ MMWD_CheckText
    \/ MMWD_Recognise
    \/ MMWD_Extract

NextExtract == NMWD_extract_data \/ MMWD_extract_data

SpecExtract == InitExtract /\ [][NextExtract]_vars

-----------------------------------------------------------------------------
(* The functions without side effects, each called once with arguments     *)
(* drawn from the texts below.                                              *)

\* month, day and year as a bill may print them, and as it may not
MonthTexts == {S("1"), S("01"), S("12"), S("13"), S("00")}
DayTexts == {S("5"), S("05"), S("29"), S("31"), S("32")}
YearTexts == {S("2025"), S("2024"), S("1999"), S("25"), S("00"), S("68"),
              S("69"), S("99"), S("202")}

\* the dates made of them, and texts that are no such dates
DateTexts ==
    { m \o S("/") \o d \o S("/") \o y :
        m \in MonthTexts, d \in DayTexts, y \in YearTexts }
    \cup { <<>>, S("2025-09-15"), S(" 09/15/2025"), S("09/15/2025 "),
           S("09/15/2025 10:00"), S("9/ 5/2025"), S("Sept 15"),
           S("02/30/2025"), S("02/29/2024"), S("02/29/2025"), S("09/15/25 ") }

\* the records generate_filename is called with: it reads the date, the
\* district and the account number
NamedBills ==
    { [bill_date |-> date, district |-> d, account_number |-> acct] :
        date \in DateTexts,
        d \in Districts \cup {"Other"},
        acct \in {S("12-3456"), S("49/58 05")} }

\* account numbers as a bill and a template row may hold them
AccountTexts ==
    { S("495805"), S("495805-61362"), S("999111"), S("61362"), S("4958"),
      S("49-58-05"), S(" 495805 "), S("958"), S("0"), S("N/A"), S("Acct 9"),
      <<>> }

Calls ==
    { [fn |-> "generate_filename", bill_data |-> b] : b \in NamedBills }
    \cup { [fn |-> "_is_account_match", bill_account |-> a, excel_account |-> b] :
              a \in AccountTexts, b \in AccountTexts }
    \cup { [fn |-> f, date_str |-> date] :
              f \in {"_normalize_date", "normalize_mmddyyyy"}, date \in DateTexts }

InitCalls ==
    /\ call \in Calls
    /\ result = Pending
    /\ pdf_file = UnreadableFile
    /\ extractor = "NMWD"
    /\ epc = "idle"
    /\ cur_text = NoneV
    /\ returned = NoneV
    /\ district = NorthMarin
    /\ selection = <<>>
    /\ template = Absent
    /\ reportFile = Absent
    /\ has_last_unmatched = FALSE
    /\ last_unmatched = <<>>
    /\ pc = "idle"
    /\ bills = <<>>
    /\ idx = 1
    /\ worksheet = <<>>
    /\ excel_accounts = <<>>
    /\ target_row = 0
    /\ matched_count = 0
    /\ ret = NoneV
    /\ saves = 0
    /\ outcome = "none"
    /\ NoRun

\* FileRenamer.generate_filename(bill_data)
Call_generate_filename ==
    /\ call.fn = "generate_filename"
    /\ result = Pending
    /\ result' = Str(generate_filename(call.bill_data))
    /\ UNCHANGED <<call, excelVars, extractVars, runVars>>

\* ExcelProcessor._is_account_match(bill_account, excel_account)
Call_is_account_match ==
    /\ call.fn = "_is_account_match"
    /\ result = Pending
    /\ result' = Bool(_is_account_match(call.bill_account, call.excel_account))
    /\ UNCHANGED <<call, excelVars, extractVars, runVars>>

\* NMWDExtractor._normalize_date(date_str)
Call_normalize_date ==
    /\ call.fn = "_normalize_date"
    /\ result = Pending
    /\ result' = Str(_normalize_date(call.date_str))
    /\ UNCHANGED <<call, excelVars, extractVars, runVars>>

\* normalize_mmddyyyy(date_str), which Marin Municipal's extractor calls
Call_normalize_mmddyyyy ==
    /\ call.fn = "normalize_mmddyyyy"
    /\ result = Pending
    /\ result' = Str(normalize_mmddyyyy(call.date_str))
    /\ UNCHANGED <<call, excelVars, extractVars, runVars>>

NextCalls ==
    \/ Call_generate_filename
    \/ Call_is_account_match
    \/ Call_normalize_date
    \/ Call_normalize_mmddyyyy

SpecCalls == InitCalls /\ [][NextCalls]_vars

-----------------------------------------------------------------------------
(* What the claims speak of, stated on the worksheet itself *)

\* a cell value that is empty or whitespace-only text
BlankValue(v) ==
    \/ v = NoneV
    \/ (v.t = "str" /\ \A i \in 1..Len(v.s) : v.s[i] \in Whitespace)

\* the rows of the sheet that carry an account number
AccountRows(ws) == {r \in DOMAIN ws : ~BlankValue(ws[r][account_col])}

\* the rows the scan indexes: in the scanned range, with a truthy account cell
IndexedRows(ws) ==
    {r \in DOMAIN ws :
        /\ start_row <= r
        /\ r < start_row + scan_rows
        /\ ws[r][account_col] # NoneV
        /\ ws[r][account_col] # Str(<<>>)}

\* the account text the scan keeps for an indexed row
RowAccount(ws, r) == strip(ws[r][account_col].s)

\* two account texts match exactly: both non-empty and the same digits
ExactMatch(a, b) == a # <<>> /\ b # <<>> /\ DigitsOnly(a) = DigitsOnly(b)

\* two account texts match: both non-empty, the digits equal or one within the other
AnyMatch(a, b) ==
    /\ a # <<>>
    /\ b # <<>>
    /\ \/ DigitsOnly(a) = DigitsOnly(b)
       \/ InStr(DigitsOnly(a), DigitsOnly(b))
       \/ InStr(DigitsOnly(b), DigitsOnly(a))

MatchRows(ws, acct) == {r \in IndexedRows(ws) : AnyMatch(acct, RowAccount(ws, r))}

BlankMatchRows(ws, acct) == {r \in MatchRows(ws, acct) : BlankValue(ws[r][amount_col])}

ExactBlankRows(ws, acct) ==
    {r \in IndexedRows(ws) :
        ExactMatch(acct, RowAccount(ws, r)) /\ BlankValue(ws[r][amount_col])}

MinRow(rows) == CHOOSE r \in rows : \A q \in rows : r <= q

\* the <<account, filename>> pairs of the bills of bs that match no indexed row of ws
RECURSIVE UnmatchedPairs(_, _)
UnmatchedPairs(ws, bs) ==
    IF bs = <<>> THEN <<>>
    ELSE (IF MatchRows(ws, Head(bs).account_number) = {}
          THEN << <<Head(bs).account_number, Head(bs).original_filename>> >>
          ELSE <<>>)
         \o UnmatchedPairs(ws, Tail(bs))

\* a step of the loop: one bill has been taken
LoopStep == pc = "loop" /\ idx' = idx + 1

\* the account texts at hand all hold a digit: the record's and every indexed row's
AllHaveDigits(ws, acct) ==
    /\ DigitsOnly(acct) # <<>>
    /\ \A r \in IndexedRows(ws) : DigitsOnly(RowAccount(ws, r)) # <<>>

-----------------------------------------------------------------------------
(* C1: generate_excel_report never adds or deletes a template row: the saved
   workbook has the rows of the template, the same rows carry an account number,
   and a row that differs from the template is matched by a record of the batch
   (a record that matches no row is written nowhere). *)
C1_RowsPreserved ==
    reportFile.t = "sheet" =>
        /\ DOMAIN reportFile.rows = DOMAIN template.rows
        /\ AccountRows(reportFile.rows) = AccountRows(template.rows)
        /\ \A r \in DOMAIN template.rows :
              reportFile.rows[r] # template.rows[r] =>
                  \E i \in 1..Len(selection) :
                      r \in MatchRows(template.rows, selection[i].account_number)

\* a saved report in which a row was filled while another record matched no row
C1_Witness ==
    /\ outcome = "saved"
    /\ reportFile.t = "sheet"
    /\ reportFile.rows # template.rows
    /\ last_unmatched # <<>>

(* C2: when a record is written into its matched row, a cell changes only if it is
   in that row and was blank (empty or whitespace-only) before; every other cell
   of the sheet keeps its value. *)
C2_FillOnlyBlank ==
    [][ (LoopStep /\ target_row' # 0) =>
            \A r \in DOMAIN worksheet : \A c \in Columns :
                worksheet'[r][c] # worksheet[r][c] =>
                    (r = target_row' /\ BlankValue(worksheet[r][c])) ]_vars

\* a row was filled whose whitespace amount cell was written and whose earlier
\* commodity text was kept
C2_Witness ==
    /\ pc = "loop"
    /\ target_row # 0
    /\ template.rows[target_row][amount_col] = Str(S("  "))
    /\ worksheet[target_row][amount_col].t = "num"
    /\ worksheet[target_row][4] = Str(S("Gas"))

(* C3, as claimed: when some indexed row with a blank amount cell has exactly the
   record's digits, the record goes to the first such row, even past an earlier
   blank row that matches only by containment.  (Stated for account texts that
   all hold a digit, where containment is between non-empty digit strings.) *)
C3_ExactBlankPreferred ==
    [][ (/\ LoopStep
         /\ AllHaveDigits(worksheet, bills[idx].account_number)
         /\ ExactBlankRows(worksheet, bills[idx].account_number) # {}) =>
            target_row' = MinRow(ExactBlankRows(worksheet, bills[idx].account_number))
      ]_vars

(* C3, amended: when some indexed row with a blank amount cell matches the record
   (equal digits, or the digits of one within the other), the record goes to the
   first such row in row order; an exact match further down is not preferred. *)
C3_FirstBlankMatch ==
    [][ (LoopStep /\ BlankMatchRows(worksheet, bills[idx].account_number) # {}) =>
            target_row' = MinRow(BlankMatchRows(worksheet, bills[idx].account_number))
      ]_vars

\* a record went to a blank row it matches by containment only, while a row
\* further down with exactly its digits had a blank amount cell
C3_Witness ==
    /\ pc = "loop"
    /\ idx > 1
    /\ target_row # 0
    /\ ~ExactMatch(bills[idx - 1].account_number, RowAccount(worksheet, target_row))
    /\ BlankValue(template.rows[target_row][amount_col])
    /\ \E r \in ExactBlankRows(worksheet, bills[idx - 1].account_number) :
           r > target_row

(* C4, as claimed: when no indexed row with a blank amount cell has exactly the
   record's digits, the record goes to the first indexed row that matches it
   (exactly or by containment), filled or not.  (Stated for account texts that
   all hold a digit.) *)
C4_FirstMatchWhenNoExactBlank ==
    [][ (/\ LoopStep
         /\ AllHaveDigits(worksheet, bills[idx].account_number)
         /\ ExactBlankRows(worksheet, bills[idx].account_number) = {}
         /\ MatchRows(worksheet, bills[idx].account_number) # {}) =>
            target_row' = MinRow(MatchRows(worksheet, bills[idx].account_number))
      ]_vars

(* C4, amended: when no indexed row with a blank amount cell matches the record
   (exactly or by containment), the record goes to the first indexed row in row
   order that matches it, although that row's amount cell is filled. *)
C4_FirstMatchWhenNoBlankMatch ==
    [][ (/\ LoopStep
         /\ BlankMatchRows(worksheet, bills[idx].account_number) = {}
         /\ MatchRows(worksheet, bills[idx].account_number) # {}) =>
            target_row' = MinRow(MatchRows(worksheet, bills[idx].account_number))
      ]_vars

\* a record went to a row whose amount cell was already filled, the first of two
\* rows that match it
C4_Witness ==
    /\ pc = "loop"
    /\ idx > 1
    /\ target_row # 0
    /\ ~BlankValue(template.rows[target_row][amount_col])
    /\ target_row = MinRow(MatchRows(worksheet, bills[idx - 1].account_number))
    /\ Cardinality(MatchRows(worksheet, bills[idx - 1].account_number)) > 1

(* C5: a record that matches no indexed row is appended once to the unmatched
   list as <<account number, original filename>> and changes no cell; the loop
   goes on to the next record, so that at every point of the loop the list holds,
   in batch order, one pair for each record taken so far that matches no row, and
   every record taken so far is either matched or listed. *)
C5_UnmatchedListed ==
    /\ [](pc = "loop" =>
            /\ last_unmatched = UnmatchedPairs(template.rows, SubSeq(bills, 1, idx - 1))
            /\ matched_count + Len(last_unmatched) = idx - 1)
    /\ [][ (LoopStep /\ MatchRows(worksheet, bills[idx].account_number) = {}) =>
              /\ last_unmatched' =
                     Append(last_unmatched, <<bills[idx].account_number,
                                              bills[idx].original_filename>>)
              /\ worksheet' = worksheet ]_vars

\* the first record of the batch matched no row and the second was written to one
C5_Witness ==
    /\ pc = "loop"
    /\ idx = 3
    /\ Len(last_unmatched) = 1
    /\ last_unmatched[1] = <<bills[1].account_number, bills[1].original_filename>>
    /\ target_row # 0
    /\ worksheet # template.rows

(* C6: reconciling the same batch again against the same template writes the same
   report: once a report has been saved, every later save of the session leaves
   the file as it is, so no cell filled by the first run has another value after
   the second and no further row is filled. *)
C6_Idempotent ==
    [][ (reportFile.t = "sheet" /\ reportFile'.t = "sheet") =>
            reportFile' = reportFile ]_vars

\* the second run is about to save: a report of the first run is on disk, rows
\* were filled, and the workbook in memory is that report
C6_Witness ==
    /\ AtSave
    /\ reportFile.t = "sheet"
    /\ worksheet # template.rows
    /\ worksheet = reportFile.rows

\* a failure for which C7 promises an untouched report file
C7_Failures == {"no_template", "mkdir_failed", "locked", "save_permission"}

(* C7: generate_excel_report returns a path only if it saved the workbook, and
   saves at most once per call; when the template is absent, the output directory
   cannot be created or the report file is locked or unwritable, it returns none
   and the report file is as it was when the call began (no step of such a call
   changes it). *)
C7_SaveOnceOrNotAtAll ==
    /\ [](/\ saves <= 1
          /\ ret # NoneV =>
                /\ outcome = "saved"
                /\ saves = 1
                /\ ret = Path(_generate_output_path(district))
                /\ reportFile.t = "sheet")
    /\ [][ /\ (pc' = "idle" /\ outcome' \in C7_Failures) =>
                (ret' = NoneV /\ saves' = 0 /\ reportFile' = reportFile)
           /\ pc' = "loop" => reportFile' = reportFile ]_vars

\* a call found the report of an earlier run locked and left it as it was
C7_Witness ==
    /\ pc = "idle"
    /\ outcome = "locked"
    /\ ret = NoneV
    /\ reportFile.t = "sheet"
    /\ reportFile.rows # template.rows

\* the ways the report file cannot be written
C8_WriteFailures == {"locked", "save_permission", "save_error"}

(* C8: when the report file cannot be written (locked, permission denied, save
   error), generate_excel_report returns none and last_unmatched holds, in batch
   order, every record of the batch that matches no indexed template row. *)
C8_UnmatchedKeptOnWriteFailure ==
    (pc = "idle" /\ outcome \in C8_WriteFailures) =>
        /\ ret = NoneV
        /\ has_last_unmatched
        /\ last_unmatched = UnmatchedPairs(template.rows, selection)

\* the save was refused after a batch with a matched and an unmatched record
C8_Witness ==
    /\ pc = "idle"
    /\ outcome = "save_permission"
    /\ Len(selection) = 2
    /\ Len(last_unmatched) = 1

-----------------------------------------------------------------------------
(* C9, C10: what extract_data returns for the text it ends up with.  The     *)
(* text is cur_text: page one's text layer, or the recognised text that     *)
(* replaced it.                                                              *)

\* the validity check of the extractor that was called
Accepts(text) ==
    IF extractor = "NMWD" THEN _is_nmwd_bill(text) ELSE _is_mmwd_bill(text)

\* the account number the extractor that was called finds in the text
AccountExtracted(text) ==
    IF extractor = "NMWD" THEN Truthy(NMWD_account_number(text))
    ELSE Truthy(_extract_pattern(text, MMWD_account_pattern))

\* the total due the extractor that was called finds in the text
TotalDueExtracted(text) ==
    IF extractor = "NMWD" THEN _extract_nmwd_total_due(text.s) # NoneV
    ELSE _extract_currency(text, MMWD_total_due_pattern) # NoneV

\* the text names North Marin, Marin Municipal: a strong indicator is in its
\* upper-cased text
NamesNorthMarin(text) ==
    /\ Truthy(text)
    /\ \E indicator \in {S("NORTH MARIN WATER DISTRICT"), S("NORTH MARIN")} :
          InStr(indicator, upper(text.s))

NamesMarinMunicipal(text) ==
    /\ Truthy(text)
    /\ \E indicator \in {S("MARIN MUNICIPAL"), S("220 NELLEN AVENUE"),
                          S("CORTE MADERA"), S("MARINWATER.ORG")} :
          InStr(indicator, upper(text.s))

\* C9: when extract_data has returned and the text passed the extractor's
\* validity check, a record was returned if and only if both the account number
\* and the total due were extracted, whatever became of the bill date, the due
\* date, the address, the usage and the period dates; and every record returned
\* has a non-empty account_number and a total_due that is not None.
C9_RecordIffAccountAndTotal ==
    /\ (epc = "done" /\ Accepts(cur_text))
          => (returned # NoneV
                <=> (AccountExtracted(cur_text) /\ TotalDueExtracted(cur_text)))
    /\ returned # NoneV
          => (returned.account_number # <<>> /\ returned.total_due # NoneV)

\* North Marin's extractor has returned a record for an accepted text in which
\* it found no bill date, due date, address, usage or period
C9_Witness ==
    /\ extractor = "NMWD"
    /\ epc = "done"
    /\ _is_nmwd_bill(cur_text)
    /\ returned # NoneV
    /\ returned.account_number = S("12-3456")
    /\ returned.bill_date = <<>>
    /\ returned.due_date = S("Upon Receipt")
    /\ returned.service_address = <<>>
    /\ returned.current_usage_gallons = 0
    /\ returned.service_period = <<>>
    /\ _extract_pattern(cur_text, NMWD_bill_date_pattern) = NoneV

\* C10: a text with a strong indicator of exactly one district is accepted by
\* that district's validity check and rejected by the other's; a text with no
\* strong indicator of either, an empty text and an absent text are rejected by
\* both checks, and the extractor that ended up with such a text has returned
\* no record.
C10_ExactlyOneDistrict ==
    /\ (NamesNorthMarin(cur_text) /\ ~NamesMarinMunicipal(cur_text))
          => (_is_nmwd_bill(cur_text) /\ ~_is_mmwd_bill(cur_text))
    /\ (NamesMarinMunicipal(cur_text) /\ ~NamesNorthMarin(cur_text))
          => (_is_mmwd_bill(cur_text) /\ ~_is_nmwd_bill(cur_text))
    /\ (~NamesNorthMarin(cur_text) /\ ~NamesMarinMunicipal(cur_text))
          => /\ ~_is_nmwd_bill(cur_text)
             /\ ~_is_mmwd_bill(cur_text)
             /\ epc = "done" => returned = NoneV

\* North Marin's extractor has given up a text that only Marin Municipal's web
\* address marks, which Marin Municipal's check accepts and from which Marin
\* Municipal's extractor makes a record
C10_Witness ==
    /\ extractor = "NMWD"
    /\ epc = "done"
    /\ cur_text = Str(JoinLines(MarinMunicipalBill))
    /\ ~InStr(S("MARIN MUNICIPAL"), upper(cur_text.s))
    /\ _is_mmwd_bill(cur_text)
    /\ ~_is_nmwd_bill(cur_text)
    /\ MMWD_fields(cur_text, pdf_file.name) # NoneV
    /\ returned = NoneV

-----------------------------------------------------------------------------
(* C11: a text with strong indicators of both districts.  The full name of  *)
(* an issuer is the supplier_name of its district in DISTRICT_CONFIG.       *)

\* the full issuer name of district d is in the upper-cased text
FullNameIn(d, text) ==
    InStr(upper(DISTRICT_CONFIG(d).supplier_name), upper(text.s))

\* C11: a text with strong indicators of both districts is accepted by the
\* validity check of a district whose full issuer name is in the text, and is
\* rejected by the check of the other district when the other district's full
\* issuer name is not in the text.
C11_FullNameDecides ==
    (NamesNorthMarin(cur_text) /\ NamesMarinMunicipal(cur_text)) =>
        /\ FullNameIn(NorthMarin, cur_text) => _is_nmwd_bill(cur_text)
        /\ FullNameIn(MarinMunicipal, cur_text) => _is_mmwd_bill(cur_text)
        /\ (FullNameIn(NorthMarin, cur_text) /\ ~FullNameIn(MarinMunicipal, cur_text))
              => ~_is_mmwd_bill(cur_text)
        /\ (FullNameIn(MarinMunicipal, cur_text) /\ ~FullNameIn(NorthMarin, cur_text))
              => ~_is_nmwd_bill(cur_text)

\* North Marin's extractor has made a record of a text that holds Marin
\* Municipal's full name and only a mention of North Marin
C11_Witness ==
    /\ extractor = "NMWD"
    /\ epc = "done"
    /\ Truthy(cur_text)
    /\ FullNameIn(MarinMunicipal, cur_text)
    /\ ~FullNameIn(NorthMarin, cur_text)
    /\ _is_mmwd_bill(cur_text)
    /\ returned # NoneV
    /\ returned.district = NorthMarin

-----------------------------------------------------------------------------
(* C12: the due date of a record *)

\* the date the text holds under Marin Municipal's due-date label, or NoneV
MMWD_dated_due(text) == _extract_pattern(text, MMWD_due_date_pattern)

\* C12 as stated: every record either extractor returns for a text that holds
\* the phrase "Upon Receipt" has the due_date "Upon Receipt", whatever dated
\* due date the text also holds.
C12_UponReceiptOverrides ==
    (epc = "done" /\ returned # NoneV /\ InStr(S("Upon Receipt"), cur_text.s))
        => returned.due_date = S("Upon Receipt")

\* C12 as amended: a record of North Marin's extractor for a text that holds
\* the phrase has the due_date "Upon Receipt", whatever dated due date the text
\* holds; a record of Marin Municipal's extractor has the date that follows
\* "Current Charges Due By" when the text holds one, whether or not it holds the
\* phrase, and "Upon Receipt" when it holds none.
C12_UponReceiptByDistrict ==
    (epc = "done" /\ returned # NoneV) =>
        /\ (extractor = "NMWD" /\ InStr(S("Upon Receipt"), cur_text.s))
              => returned.due_date = S("Upon Receipt")
        /\ extractor = "MMWD"
              => returned.due_date =
                    IF MMWD_dated_due(cur_text) # NoneV
                    THEN MMWD_dated_due(cur_text).s
                    ELSE S("Upon Receipt")

\* North Marin's extractor has returned a record with the due date "Upon
\* Receipt" for a text that holds the phrase and a date under "DUE DATE"
C12_Witness ==
    /\ extractor = "NMWD"
    /\ epc = "done"
    /\ returned # NoneV
    /\ InStr(S("Upon Receipt"), cur_text.s)
    /\ _extract_pattern(cur_text, NMWD_due_date_pattern) = Str(S("09/30/2025"))
    /\ returned.due_date = S("Upon Receipt")

-----------------------------------------------------------------------------
(* C13: the total due of a North Marin record *)

\* the numbers of the lines of s that hold both "TOTAL" and "DUE"
LabelledLines(s) ==
    {i \in 1..Len(splitlines(s)) :
        /\ InStr(S("TOTAL"), upper(strip(splitlines(s)[i])))
        /\ InStr(S("DUE"), upper(strip(splitlines(s)[i])))}

\* the value of the last currency-looking token of line i of s, NoneV when the
\* line holds no such token or the token is not a number
LastTokenOf(s, i) == LastAmount(strip(splitlines(s)[i]))

\* the value the strict label-then-amount pattern finds in s, or NoneV
StrictTotal(s) ==
    LET strict_match == re_search(strict_pattern, s, Flags(TRUE, TRUE))
    IN  IF strict_match = <<>> THEN NoneV
        ELSE AmountValue(group(s, strict_match, 1))

\* C13 as stated: the total_due of a North Marin record for a text in which
\* some line holds both "TOTAL" and "DUE" is the last currency-looking token of
\* the first such line: no later line and no strict pattern gives it.
C13_FirstLabelledLineDecides ==
    (extractor = "NMWD" /\ epc = "done" /\ returned # NoneV
        /\ LabelledLines(cur_text.s) # {})
        => returned.total_due
              = LastTokenOf(cur_text.s, Least(LabelledLines(cur_text.s)))

\* C13 as amended: the total_due of a North Marin record is the last
\* currency-looking token of the first line that holds both "TOTAL" and "DUE"
\* and whose last such token is a number, and no line after that one is
\* consulted; when no line with both words ends in such a token, also when
\* lines hold both words, it is what the strict pattern finds in the text.
C13_FirstValuedLineDecides ==
    (extractor = "NMWD" /\ epc = "done" /\ returned # NoneV) =>
        LET valued == {i \in LabelledLines(cur_text.s) :
                          LastTokenOf(cur_text.s, i) # NoneV}
        IN  returned.total_due =
                IF valued # {} THEN LastTokenOf(cur_text.s, Least(valued))
                ELSE StrictTotal(cur_text.s)

\* North Marin's extractor has returned a record whose total is the last token
\* of the first of two labelled lines that both end in a number
C13_Witness ==
    /\ extractor = "NMWD"
    /\ epc = "done"
    /\ returned # NoneV
    /\ Cardinality(LabelledLines(cur_text.s)) = 2
    /\ \A i \in LabelledLines(cur_text.s) : LastTokenOf(cur_text.s, i) # NoneV
    /\ returned.total_due = Negated(Float(123456, 2))
    /\ LastTokenOf(cur_text.s, Greatest(LabelledLines(cur_text.s))) = Float(9900, 2)

-----------------------------------------------------------------------------
(* C14: the amounts $1,234.56 and (1,234.56) under the total-due label *)

\* the one line of the text that holds "TOTAL" is "TOTAL DUE: " and the amount
\* as printed
PrintedTotal(text, printed) ==
    /\ Truthy(text)
    /\ \E i \in 1..Len(splitlines(text.s)) :
          /\ splitlines(text.s)[i] = S("TOTAL DUE: ") \o printed
          /\ \A j \in 1..Len(splitlines(text.s)) :
                InStr(S("TOTAL"), upper(splitlines(text.s)[j])) => j = i

\* C14: either extractor, when it has returned for an accepted text that holds
\* an account number and whose total due is printed as $1,234.56, has returned
\* a record with the total_due 1234.56; when the total due is printed as
\* (1,234.56), a record with the total_due -1234.56.
C14_AmountsParsed ==
    (epc = "done" /\ Accepts(cur_text) /\ AccountExtracted(cur_text)) =>
        /\ PrintedTotal(cur_text, S("$1,234.56"))
              => (returned # NoneV /\ returned.total_due = Float(123456, 2))
        /\ PrintedTotal(cur_text, S("(1,234.56)"))
              => (returned # NoneV
                    /\ returned.total_due = Negated(Float(123456, 2)))

\* North Marin's extractor has returned a record with the total_due -1234.56
\* for a text whose total due is printed as (1,234.56)
C14_Witness ==
    /\ extractor = "NMWD"
    /\ epc = "done"
    /\ PrintedTotal(cur_text, S("(1,234.56)"))
    /\ returned # NoneV
    /\ returned.total_due = Negated(Float(123456, 2))
    /\ returned.total_due.mant = 0 - 123456

-----------------------------------------------------------------------------
(* C15: the usage of a Marin Municipal record *)

\* the count after "Water Use Units*", and the fifth number of the first row
\* of the meter table: a number, or NoneV
LabelledUnits(s) ==
    LET units_match == re_search(MMWD_units_pattern, s, IGNORECASE)
    IN  IF units_match = <<>> THEN NoneV
        ELSE Num(ToInt(group(s, units_match, 1)))

TableUnits(s) ==
    LET table_match == re_search(MMWD_table_pattern, s, NoFlags)
    IN  IF table_match = <<>> THEN NoneV
        ELSE Num(ToInt(group(s, table_match, 5)))

\* C15: Marin Municipal's extractor, when it has returned for an accepted
\* text, has returned a record if and only if it found the account number and
\* the total due, whatever it found of the units; the record's
\* current_usage_gallons is 748 times the labelled units when the text holds
\* them, else 748 times the fifth number of the table row when it holds one,
\* else 748 times what the line scan finds, and 0 when the text holds no
\* "Units*" at all.
C15_GallonsFromUnits ==
    (extractor = "MMWD" /\ epc = "done" /\ Accepts(cur_text)) =>
        /\ returned # NoneV
              <=> (AccountExtracted(cur_text) /\ TotalDueExtracted(cur_text))
        /\ returned # NoneV =>
              /\ LabelledUnits(cur_text.s) # NoneV
                    => returned.current_usage_gallons
                          = 748 * LabelledUnits(cur_text.s).n
              /\ (LabelledUnits(cur_text.s) = NoneV
                    /\ TableUnits(cur_text.s) # NoneV)
                    => returned.current_usage_gallons
                          = 748 * TableUnits(cur_text.s).n
              /\ (LabelledUnits(cur_text.s) = NoneV
                    /\ TableUnits(cur_text.s) = NoneV)
                    => returned.current_usage_gallons
                          = 748 * MMWD_units_line_scan(cur_text.s)
              /\ ~InStr(S("Units*"), cur_text.s)
                    /\ TableUnits(cur_text.s) = NoneV
                    => returned.current_usage_gallons = 0

\* Marin Municipal's extractor has returned a record with 748 * 12 gallons for
\* a text that holds the table row ahead of the labelled units
C15_Witness ==
    /\ extractor = "MMWD"
    /\ epc = "done"
    /\ returned # NoneV
    /\ LabelledUnits(cur_text.s) = Num(12)
    /\ TableUnits(cur_text.s) = Num(17)
    /\ returned.current_usage_gallons = 8976

\* and one with no gallons for a text in which no strategy finds a count
C15_WitnessNoUnits ==
    /\ extractor = "MMWD"
    /\ epc = "done"
    /\ returned # NoneV
    /\ InStr(S("Units*"), cur_text.s)
    /\ LabelledUnits(cur_text.s) = NoneV
    /\ TableUnits(cur_text.s) = NoneV
    /\ returned.current_usage_gallons = 0

-----------------------------------------------------------------------------
(* C16: the first six characters of a generated file name *)

\* the call of generate_filename has returned
Named == call.fn = "generate_filename" /\ result # Pending

\* C16: the name generate_filename returns begins with the two-digit year,
\* the month and the day of bill_date when bill_date parses as a month, a day
\* and a four-digit year between slashes (for a date written MM/DD/YYYY these
\* are its characters 9-10, 1-2 and 4-5), and with "000000" in every other
\* case, the empty bill_date among them.
C16_DatePrefix ==
    Named =>
        LET bill_date == call.bill_data.bill_date
            date_obj == strptime_mdY(bill_date)
            prefix == SubSeq(result.s, 1, 6)
        IN  /\ Len(result.s) >= 6
            /\ date_obj # NoneV
                  => prefix = Pad(date_obj.y % 100, 2) \o Pad(date_obj.m, 2)
                              \o Pad(date_obj.d, 2)
            /\ (date_obj # NoneV /\ Len(bill_date) = 10)
                  => prefix = <<bill_date[9], bill_date[10], bill_date[1],
                                bill_date[2], bill_date[4], bill_date[5]>>
            /\ date_obj = NoneV => prefix = S("000000")

\* a name has been made of the bill date 01/05/2025
C16_Witness ==
    /\ Named
    /\ call.bill_data.bill_date = S("01/05/2025")
    /\ call.bill_data.district = NorthMarin
    /\ result.s = S("250105 Account #12-3456.pdf")

\* and one of a bill without a date
C16_WitnessNoDate ==
    /\ Named
    /\ call.bill_data.bill_date = <<>>
    /\ call.bill_data.district = MarinMunicipal
    /\ result.s = S("000000 MMWD 4958 05.pdf")

-----------------------------------------------------------------------------
(* C17: the account match of two values with digits *)

\* the call of _is_account_match has returned
Matched == call.fn = "_is_account_match" /\ result # Pending

\* a occurs in b as a run of consecutive characters
SubstringOf(a, b) ==
    \E i \in 1..(Len(b) + 1) : \E j \in (i - 1)..Len(b) : SubSeq(b, i, j) = a

\* C17: for two account values whose digits-only forms are both non-empty,
\* _is_account_match holds exactly when the digits-only forms are equal or one
\* is a substring of the other, and it gives the same answer with its two
\* arguments exchanged; "495805" matches "495805-61362" and does not match
\* "999111".
C17_MatchIsContainment ==
    Matched =>
        LET bill_norm == DigitsOnly(call.bill_account)
            excel_norm == DigitsOnly(call.excel_account)
        IN  /\ (bill_norm # <<>> /\ excel_norm # <<>>) =>
                  /\ result.b <=> \/ bill_norm = excel_norm
                                  \/ SubstringOf(bill_norm, excel_norm)
                                  \/ SubstringOf(excel_norm, bill_norm)
                  /\ result.b = _is_account_match(call.excel_account,
                                                  call.bill_account)
            /\ (call.bill_account = S("495805")
                  /\ call.excel_account = S("495805-61362")) => result.b
            /\ (call.bill_account = S("495805")
                  /\ call.excel_account = S("999111")) => ~result.b

\* the longer account has been matched against the shorter one it contains
C17_Witness ==
    /\ Matched
    /\ call.bill_account = S("495805-61362")
    /\ call.excel_account = S("61362")
    /\ DigitsOnly(call.bill_account) # DigitsOnly(call.excel_account)
    /\ result.b

-----------------------------------------------------------------------------
(* C20: the normal form of a service-period date *)

\* a call of one of the two date functions has returned
Normalized ==
    call.fn \in {"_normalize_date", "normalize_mmddyyyy"} /\ result # Pending

\* the function that was called, applied to a date
NormalizeAgain(date) ==
    IF call.fn = "_normalize_date" THEN _normalize_date(date)
    ELSE normalize_mmddyyyy(date)

\* the text between the slashes of a date: 1 the month, 2 the day, 3 the year
DatePart(date, k) ==
    LET first == Least(Slashes(date))
        last == Greatest(Slashes(date))
    IN  CASE k = 1 -> SubSeq(date, 1, first - 1)
          [] k = 2 -> SubSeq(date, first + 1, last - 1)
          [] k = 3 -> SubSeq(date, last + 1, Len(date))

\* date is a day of the calendar written with one or two digits for the month
\* and the day and two for the year, the year being 20yy
TwoDigitYearDate(date) ==
    /\ Cardinality(Slashes(date)) = 2
    /\ \A k \in 1..3 : DatePart(date, k) # <<>> /\ AllDigits(DatePart(date, k))
    /\ Len(DatePart(date, 1)) <= 2
    /\ Len(DatePart(date, 2)) <= 2
    /\ Len(DatePart(date, 3)) = 2
    /\ ToInt(DatePart(date, 1)) \in 1..12
    /\ ToInt(DatePart(date, 2))
          \in 1..DaysInMonth(2000 + ToInt(DatePart(date, 3)),
                             ToInt(DatePart(date, 1)))

\* date is written as two digits, two digits and four digits between slashes
FourDigitYearForm(date) ==
    /\ Len(date) = 10
    /\ \A i \in 1..10 : IF i \in {3, 6} THEN date[i] = "/" ELSE IsDigit(date[i])

\* C20: either date function turns a date with a two-digit year yy into the
\* two-digit month, the two-digit day and the year 20yy, returns a date
\* written MM/DD/YYYY as it is, and returns what it has returned as it is.
C20_TwoDigitYearsAre20yy ==
    Normalized =>
        /\ TwoDigitYearDate(call.date_str)
              => result.s = Pad(ToInt(DatePart(call.date_str, 1)), 2) \o S("/")
                            \o Pad(ToInt(DatePart(call.date_str, 2)), 2)
                            \o S("/20") \o DatePart(call.date_str, 3)
        /\ FourDigitYearForm(call.date_str) => result.s = call.date_str
        /\ NormalizeAgain(result.s) = result.s

\* North Marin's function has turned 1/5/99 into 01/05/2099
C20_Witness ==
    /\ Normalized
    /\ call.fn = "_normalize_date"
    /\ call.date_str = S("1/5/99")
    /\ result.s = S("01/05/2099")

-----------------------------------------------------------------------------
(* C19: when the text recognised from the page images is asked for *)

\* this step of extract_data judges page one's text layer and rejects it
RejectsPrimary == epc = "check" /\ ~Accepts(cur_text)

\* this step of extract_data returns no record for want of an accepted text
GivesUp ==
    /\ epc \in {"check", "ocr"}
    /\ epc' = "done"
    /\ returned' = NoneV

\* this step gives up on the recognised text, which is absent or rejected
GivesUpOnRecognised ==
    /\ epc = "ocr"
    /\ cur_text' = _ocr_extract(pdf_file)
    /\ ~Accepts(cur_text')

\* C19 as stated: in either extractor a text layer that is absent or that the
\* validity check rejects sends the file to recognition, and the extractor
\* gives up only on a recognised text that is absent or rejected as well.
C19_EveryRejectionRecognised ==
    [][ /\ RejectsPrimary => epc' = "ocr"
        /\ GivesUp => GivesUpOnRecognised ]_vars

\* C19: Marin Municipal's extractor sends every rejected or absent text layer
\* to recognition and gives up only on a recognised text that is absent or
\* rejected; North Marin's sends only an absent or empty text layer to
\* recognition, gives up at once on a text layer that is not empty and that
\* its validity check rejects, and otherwise gives up only on a recognised
\* text that is absent or rejected.
C19_RecognitionByDistrict ==
    [][ /\ RejectsPrimary
            => IF extractor = "MMWD" \/ ~Truthy(cur_text)
               THEN epc' = "ocr"
               ELSE GivesUp /\ UNCHANGED cur_text
        /\ GivesUp
            => \/ GivesUpOnRecognised
               \/ extractor = "NMWD" /\ RejectsPrimary /\ Truthy(cur_text) ]_vars

\* North Marin's extractor has given up on a text layer that is not empty,
\* without the recognised text, which its validity check accepts
C19_Witness ==
    /\ epc = "done"
    /\ extractor = "NMWD"
    /\ returned = NoneV
    /\ cur_text = pdf_file.text
    /\ Truthy(cur_text)
    /\ ~_is_nmwd_bill(cur_text)
    /\ _is_nmwd_bill(_ocr_extract(pdf_file))

\* Marin Municipal's extractor has returned a record from the recognised text
\* of a file whose text layer is not empty and was rejected
C19_WitnessRecognised ==
    /\ epc = "done"
    /\ extractor = "MMWD"
    /\ Truthy(pdf_file.text)
    /\ ~_is_mmwd_bill(pdf_file.text)
    /\ cur_text = _ocr_extract(pdf_file)
    /\ returned # NoneV

-----------------------------------------------------------------------------
(* process_files: the selected files are extracted one by one, the records  *)
(* of the selected district are renamed into its folder and collected, and  *)
(* the collected records are handed to generate_excel_report.  The selected *)
(* district is the variable district.                                       *)

\* NMWDExtractor.extract_data(pdf_path), from call to return
NMWDExtractor_extract_data(pdf) ==
    IF ~pdf.readable THEN NoneV
    ELSE LET text ==
               IF _is_nmwd_bill(pdf.text) THEN pdf.text
               ELSE IF ~Truthy(pdf.text) /\ _is_nmwd_bill(_ocr_extract(pdf))
               THEN _ocr_extract(pdf)
               ELSE NoneV
         IN  IF ~Truthy(text) THEN NoneV ELSE NMWD_fields(text, pdf.name)

\* MMWDExtractor.extract_data(pdf_path), from call to return
MMWDExtractor_extract_data(pdf) ==
    IF ~pdf.readable THEN NoneV
    ELSE LET text ==
               IF _is_mmwd_bill(pdf.text) THEN pdf.text
               ELSE IF _is_mmwd_bill(_ocr_extract(pdf)) THEN _ocr_extract(pdf)
               ELSE NoneV
         IN  IF ~Truthy(text) THEN NoneV ELSE MMWD_fields(text, pdf.name)

\* main_window.py 545-559: North Marin's extractor is tried first, Marin
\* Municipal's when it gave no North Marin record
ExtractedBill(pdf) ==
    With(NMWDExtractor_extract_data(pdf), LAMBDA nmwd_data :
      IF nmwd_data # NoneV /\ nmwd_data.district = NorthMarin THEN nmwd_data
      ELSE With(MMWDExtractor_extract_data(pdf), LAMBDA mmwd_data :
             IF mmwd_data # NoneV /\ mmwd_data.district = MarinMunicipal
             THEN mmwd_data
             ELSE NoneV))

\* a faulty variant: no record is taken for one of another district
WrongDistrict_never(bill_data, selected_district) == FALSE

\* main_window.py 561
WrongDistrict(bill_data, selected_district) ==
    bill_data # NoneV /\ bill_data.district # selected_district

\* config.py 72-75
BILLS_DIRS(d) ==
    IF d = NorthMarin THEN "North Marin Water District" ELSE "Marin Water"

\* config.py 105-114: the month and the year of the bill date, or of today
month_year_folder(bill_date_str, now) ==
    With(strptime_mdY(bill_date_str), LAMBDA dt :
      IF dt # NoneV THEN <<dt.m, dt.y>> ELSE <<now.m, now.y>>)

\* a copy of a file in the folder of a district
Copy(original, new_filename, bill_data, now) ==
    [dir |-> BILLS_DIRS(bill_data.district),
     folder |-> month_year_folder(bill_data.bill_date, now),
     name |-> new_filename,
     from |-> original]

WrongDistrictWarning(pdf, bill_data, selected_district) ==
    [file |-> pdf.name, kind |-> "wrong_district",
     actual |-> bill_data.district, expected |-> selected_district]

UnmatchedWarning(entry) ==
    [file |-> entry[2], kind |-> "not_in_template", account |-> entry[1]]

MaxFiles == 2       \* most files of a selection
MaxRuns == 2        \* most runs of a session
MaxEvents == 1      \* most handlers root.update() calls inside a run

PdfNamed(name, pdf) == [pdf EXCEPT !.name = name]

\* the files of a selection: a bill of either district, a page that is no
\* bill, a scanned Marin Municipal bill, a Marin Municipal bill that
\* mentions North Marin, and a file that cannot be read
RunFiles ==
    { PdfNamed("nm.pdf", PdfFile(TRUE, Str(JoinLines(NorthMarinBill)), FALSE, NoneV)),
      PdfNamed("mm.pdf", PdfFile(TRUE, Str(JoinLines(MarinMunicipalBill)), FALSE, NoneV)),
      PdfNamed("flyer.pdf", PdfFile(TRUE, Str(S("Water Bill")), FALSE, NoneV)),
      PdfNamed("scan.pdf", PdfFile(TRUE, NoneV, TRUE,
                                   Str(JoinLines(MarinMunicipalBill) \o S("\n")))),
      PdfNamed("both.pdf",
               PdfFile(TRUE,
                       Str(JoinLines(<<S("Marin Municipal Water District (not North Marin)"),
                                       S("ACCOUNT NUMBER: 49-5805"),
                                       S("Customer Number: 495805"),
                                       S("TOTAL DUE: $75.00")>>)),
                       FALSE, NoneV)),
      PdfNamed("locked.pdf", UnreadableFile) }

Selections == UNION { [1..n -> RunFiles] : n \in 0..MaxFiles }

\* what the extractors make of each of the files, and the name it is copied
\* under
ExtractedBills == [pdf \in RunFiles |-> ExtractedBill(pdf)]

NewFilenames ==
    [pdf \in RunFiles |->
        IF ExtractedBills[pdf] = NoneV THEN <<>>
        ELSE generate_filename(ExtractedBills[pdf])]

\* the days the bills are processed on
Nows == {DateV(2025, 9, 15), DateV(2025, 10, 1)}

\* the templates of a run: none, an empty one, and one that lists the accounts
RunTemplates ==
    { Absent,
      Sheet([r \in ScannedRows |-> FillBlank]),
      Sheet([r \in ScannedRows |->
               TemplateRow(IF r = start_row THEN "12-3456" ELSE "495805",
                           FillBlank)]) }

InitRun ==
    /\ district \in Districts
    /\ selected_files \in Selections
    /\ template \in RunTemplates
    /\ _processing = FALSE
    /\ rpc = "idle"
    /\ file_index = 1
    /\ file_path = NoneV
    /\ buttons_enabled = TRUE
    /\ handled = <<>>
    /\ started_with = <<>>
    /\ successful_bills = <<>>
    /\ warnings = <<>>
    /\ results_tree = <<>>
    /\ bills_dir = {}
    /\ runs = 0
    /\ selection = <<>>
    /\ reportFile = Absent
    /\ has_last_unmatched = FALSE
    /\ last_unmatched = <<>>
    /\ pc = "idle"
    /\ bills = <<>>
    /\ idx = 1
    /\ worksheet = <<>>
    /\ excel_accounts = <<>>
    /\ target_row = 0
    /\ matched_count = 0
    /\ ret = NoneV
    /\ saves = 0
    /\ outcome = "none"
    /\ pdf_file = UnreadableFile
    /\ extractor = "NMWD"
    /\ epc = "idle"
    /\ cur_text = NoneV
    /\ returned = NoneV
    /\ call = NoCall
    /\ result = Pending

\* main_window.py 510-512: no file is selected.  The call returns before the
\* flag is read, in a run as well as outside of one.
Process_NoFiles ==
    /\ rpc \in {"idle", "update"}
    /\ selected_files = <<>>
    /\ rpc = "update" => Len(handled) < MaxEvents
    /\ handled' = IF rpc = "update" THEN Append(handled, "process_files")
                  ELSE handled
    /\ UNCHANGED <<selected_files, _processing, rpc, file_index, file_path,
                   buttons_enabled, started_with, successful_bills, warnings,
                   results_tree, bills_dir, runs>>
    /\ UNCHANGED <<excelVars, extractVars, callVars>>

\* FAULTY: process_files without the test of lines 514-515; a call inside a
\* run begins a run of its own
Process_Reentered_without_guard ==
    /\ rpc = "update"
    /\ selected_files # <<>>
    /\ runs < MaxRuns
    /\ Len(handled) < MaxEvents
    /\ handled' = Append(handled, "process_files")
    /\ runs' = runs + 1
    /\ _processing' = TRUE
    /\ buttons_enabled' = FALSE
    /\ warnings' = <<>>
    /\ results_tree' = <<>>
    /\ successful_bills' = <<>>
    /\ file_index' = 1
    /\ rpc' = "files"
    /\ UNCHANGED <<selected_files, file_path, started_with, bills_dir>>
    /\ UNCHANGED <<excelVars, extractVars, callVars>>

\* main_window.py 514-515: process_files is called from an event that
\* root.update() handles inside a run; it returns before the try statement
Process_Reentered ==
    /\ rpc = "update"
    /\ selected_files # <<>>
    /\ _processing
    /\ Len(handled) < MaxEvents
    /\ handled' = Append(handled, "process_files")
    /\ UNCHANGED <<selected_files, _processing, rpc, file_index, file_path,
                   buttons_enabled, started_with, successful_bills, warnings,
                   results_tree, bills_dir, runs>>
    /\ UNCHANGED <<excelVars, extractVars, callVars>>

\* main_window.py 444-457
set_buttons_enabled(enabled) == buttons_enabled' = enabled

\* main_window.py 514-527: the run begins
Process_Begin ==
    /\ rpc = "idle"
    /\ selected_files # <<>>
    /\ ~_processing
    /\ runs < MaxRuns
    /\ runs' = runs + 1
    /\ _processing' = TRUE
    /\ set_buttons_enabled(FALSE)
    /\ warnings' = <<>>
    /\ results_tree' = <<>>
    /\ successful_bills' = <<>>
    /\ file_index' = 1
    /\ rpc' = "files"
    /\ handled' = <<>>
    /\ started_with' = selected_files
    /\ UNCHANGED <<selected_files, file_path, bills_dir>>
    /\ UNCHANGED <<excelVars, extractVars, callVars>>

\* main_window.py 529-531: the for statement takes the next entry of
\* self.selected_files, the list itself and not a copy of it, and
\* root.update() begins to handle the events that wait
Process_NextFile ==
    /\ rpc = "files"
    /\ file_index <= Len(selected_files)
    /\ file_path' = selected_files[file_index]
    /\ file_index' = file_index + 1
    /\ rpc' = "update"
    /\ UNCHANGED <<selected_files, _processing, buttons_enabled, handled,
                   started_with,
                   successful_bills, warnings, results_tree, bills_dir, runs>>
    /\ UNCHANGED <<excelVars, extractVars, callVars>>

\* main_window.py 311-314: select_files called inside a run returns at once
select_files ==
    /\ rpc = "update"
    /\ _processing
    /\ Len(handled) < MaxEvents
    /\ handled' = Append(handled, "select_files")
    /\ UNCHANGED <<selected_files, _processing, rpc, file_index, file_path,
                   buttons_enabled, started_with, successful_bills, warnings,
                   results_tree, bills_dir, runs>>
    /\ UNCHANGED <<excelVars, extractVars, callVars>>

\* main_window.py 358-442: files dropped on the window inside a run are
\* appended to self.selected_files in place; _on_drop does not read
\* self._processing
_on_drop ==
    /\ rpc = "update"
    /\ \E n \in 1..MaxFiles :
          /\ Len(selected_files) + n <= MaxFiles
          /\ \E to_add \in [1..n -> RunFiles] :
                selected_files' = selected_files \o to_add
    /\ Len(handled) < MaxEvents
    /\ handled' = Append(handled, "_on_drop")
    /\ UNCHANGED <<_processing, rpc, file_index, file_path, buttons_enabled,
                   started_with, successful_bills, warnings, results_tree,
                   bills_dir, runs>>
    /\ UNCHANGED <<excelVars, extractVars, callVars>>

\* the sequence without its entries at the indices
PopAll(seq, indices) ==
    LET F[i \in 0..Len(seq)] ==
            IF i = 0 THEN <<>>
            ELSE IF i \in indices THEN F[i - 1]
            ELSE Append(F[i - 1], seq[i])
    IN  F[Len(seq)]

\* main_window.py 473-491: the entries chosen in the list are popped from
\* self.selected_files in place; remove_selected_files does not read
\* self._processing, and its button and keys are not disabled in a run
remove_selected_files ==
    /\ rpc = "update"
    /\ \E selections \in SUBSET DOMAIN selected_files :
          /\ selections # {}
          /\ selected_files' = PopAll(selected_files, selections)
    /\ Len(handled) < MaxEvents
    /\ handled' = Append(handled, "remove_selected_files")
    /\ UNCHANGED <<_processing, rpc, file_index, file_path, buttons_enabled,
                   started_with, successful_bills, warnings, results_tree,
                   bills_dir, runs>>
    /\ UNCHANGED <<excelVars, extractVars, callVars>>

\* main_window.py 561-574: the record is of another district
SkipWrongDistrict(pdf, bill_data) ==
    /\ warnings' = Append(warnings, WrongDistrictWarning(pdf, bill_data, district))
    /\ results_tree' = Append(results_tree, <<pdf.name, "Skipped - Wrong District">>)
    /\ UNCHANGED <<successful_bills, bills_dir>>

\* main_window.py 576-610: the file is copied under its new name and the
\* record collected; mkdir may raise, and rename_file returns None when it
\* could not copy
RenameAndCollect(pdf, bill_data) ==
    \/ /\ results_tree' = Append(results_tree, <<pdf.name, "Failed">>)
       /\ UNCHANGED <<successful_bills, bills_dir, warnings>>
    \/ /\ \/ UNCHANGED bills_dir
          \/ \E now \in Nows :
                bills_dir' = bills_dir \cup {Copy(pdf.name, NewFilenames[pdf],
                                                  bill_data, now)}
       /\ results_tree' = Append(results_tree, <<pdf.name, "Success">>)
       /\ successful_bills' = Append(successful_bills, bill_data)
       /\ UNCHANGED warnings

\* main_window.py 611-616
UnableToExtract(pdf) ==
    /\ results_tree' = Append(results_tree, <<pdf.name, "Unable to extract data">>)
    /\ UNCHANGED <<successful_bills, bills_dir, warnings>>

\* main_window.py 531-616: root.update() returns and the rest of the
\* iteration works on file_path
Process_File ==
    /\ rpc = "update"
    /\ LET pdf == file_path
           bill_data == ExtractedBills[pdf]
       IN  IF WrongDistrict(bill_data, district)
           THEN SkipWrongDistrict(pdf, bill_data)
           ELSE IF bill_data # NoneV
           THEN RenameAndCollect(pdf, bill_data)
           ELSE UnableToExtract(pdf)
    /\ rpc' = "files"
    /\ UNCHANGED <<runs, selected_files, _processing, file_index, file_path,
                   buttons_enabled, handled, started_with>>
    /\ UNCHANGED <<excelVars, extractVars, callVars>>

\* main_window.py 701-706: root.update() raises; the except clause reports
\* the error and the finally clause ends the run
Process_Exception ==
    /\ rpc = "update"
    /\ _processing' = FALSE
    /\ set_buttons_enabled(TRUE)
    /\ rpc' = "idle"
    /\ UNCHANGED <<runs, selected_files, file_index, file_path, handled,
                   started_with, successful_bills, warnings, results_tree,
                   bills_dir>>
    /\ UNCHANGED <<excelVars, extractVars, callVars>>

AfterFiles == rpc = "files" /\ file_index > Len(selected_files)

\* main_window.py 618-620: the collected records are handed to
\* generate_excel_report with the selected district
Process_Report ==
    /\ AfterFiles
    /\ successful_bills # <<>>
    /\ selection' = successful_bills
    /\ outcome' = "none"
    /\ rpc' = "report"
    /\ UNCHANGED <<district, template, reportFile, has_last_unmatched,
                   last_unmatched, pc, bills, idx, worksheet, excel_accounts,
                   target_row, matched_count, ret, saves>>
    /\ UNCHANGED <<runs, selected_files, _processing, file_index, file_path,
                   buttons_enabled, handled, started_with, successful_bills,
                   warnings, results_tree, bills_dir>>
    /\ UNCHANGED <<extractVars, callVars>>

\* the call of generate_excel_report that process_files makes
Process_generate_excel_report ==
    /\ rpc = "report"
    /\ outcome \in {"none", "running"}
    /\ \/ CallNoTemplate
       \/ CallLoad
       \/ ProcessBill
       \/ MkdirFails
       \/ FileLocked
       \/ SaveOk
       \/ SavePermissionError
       \/ SaveError

\* main_window.py 622-687, 691-706: the accounts the template lacks become
\* warnings, the outcome is shown and the run ends
Process_Reported ==
    /\ rpc = "report"
    /\ outcome \notin {"none", "running"}
    /\ warnings' = warnings \o [i \in DOMAIN last_unmatched |->
                                  UnmatchedWarning(last_unmatched[i])]
    /\ _processing' = FALSE
    /\ set_buttons_enabled(TRUE)
    /\ rpc' = "idle"
    /\ UNCHANGED <<runs, selected_files, file_index, file_path, handled,
                   started_with, successful_bills, results_tree, bills_dir>>
    /\ UNCHANGED <<excelVars, extractVars, callVars>>

\* main_window.py 688-706: no record was collected
Process_NoneSuccessful ==
    /\ AfterFiles
    /\ successful_bills = <<>>
    /\ _processing' = FALSE
    /\ set_buttons_enabled(TRUE)
    /\ rpc' = "idle"
    /\ UNCHANGED <<runs, selected_files, file_index, file_path, handled,
                   started_with, successful_bills, warnings, results_tree,
                   bills_dir>>
    /\ UNCHANGED <<excelVars, extractVars, callVars>>

process_files ==
    \/ Process_NoFiles
    \/ Process_Reentered
    \/ Process_Begin
    \/ Process_NextFile
    \/ Process_File
    \/ Process_Exception
    \/ Process_Report
    \/ Process_generate_excel_report
    \/ Process_Reported
    \/ Process_NoneSuccessful

\* the handlers root.update() may call inside a run, besides process_files
HandledInRun ==
    \/ select_files
    \/ _on_drop
    \/ remove_selected_files

NextRun == process_files \/ HandledInRun

SpecRun == InitRun /\ [][NextRun]_vars

\* the steps of extract_data return what the call as a whole returns
extract_data_as_a_whole ==
    epc = "done"
        => returned = IF extractor = "NMWD"
                      THEN NMWDExtractor_extract_data(pdf_file)
                      ELSE MMWDExtractor_extract_data(pdf_file)

-----------------------------------------------------------------------------
(* C18: a record of another district than the selected one *)

\* the file of the selection that has the name
FileNamed(name) == CHOOSE pdf \in RunFiles : pdf.name = name

\* the k-th row of the results table: the k-th file the loop of the last run
\* has been through
Processed(k) == FileNamed(results_tree[k][1])

\* the extractors made a record of the file, of another district than the
\* selected one
OfAnotherDistrict(pdf) ==
    /\ ExtractedBills[pdf] # NoneV
    /\ ExtractedBills[pdf].district # district

\* C18: in a run, a file whose record is of another district than the selected
\* one gets a warning and the row "Skipped - Wrong District", no copy of it is
\* made and its record is not collected, so that every record collected, and
\* every record generate_excel_report is called with, is of the selected
\* district.
C18_WrongDistrictNotConsumed ==
    /\ \A k \in DOMAIN results_tree :
          OfAnotherDistrict(Processed(k))
              => /\ results_tree[k] = <<Processed(k).name,
                                        "Skipped - Wrong District">>
                 /\ \E w \in DOMAIN warnings :
                       warnings[w] = WrongDistrictWarning(
                                         Processed(k),
                                         ExtractedBills[Processed(k)],
                                         district)
                 /\ \A copy \in bills_dir : copy.from # Processed(k).name
                 /\ \A b \in DOMAIN successful_bills :
                       successful_bills[b].original_filename
                           # Processed(k).name
    /\ \A b \in DOMAIN successful_bills :
          successful_bills[b].district = district
    /\ \A b \in DOMAIN selection : selection[b].district = district
    /\ \A b \in DOMAIN bills : bills[b].district = district

\* generate_excel_report is at work on the one record collected from two
\* files, the other file's record being of another district
C18_Witness ==
    /\ rpc = "report"
    /\ pc = "loop"
    /\ Len(selected_files) = 2
    /\ Len(bills) = 1
    /\ \E i \in 1..2 : OfAnotherDistrict(selected_files[i])
    /\ Len(warnings) = 1
    /\ bills_dir # {}

-----------------------------------------------------------------------------
(* C21: which records are listed as unmatched *)

\* the rows of the sheet at or after the start row, and those of them the scan
\* reaches
RowsFromStart(ws) == {r \in DOMAIN ws : r >= start_row}

RowsInScan(ws) == {r \in RowsFromStart(ws) : r < start_row + scan_rows}

\* row r carries a non-empty account number that matches acct: the digits of
\* one are those of the other, or are found within them
CarriesMatch(ws, r, acct) ==
    /\ acct # <<>>
    /\ ~BlankValue(ws[r][account_col])
    /\ AnyMatch(acct, RowAccount(ws, r))

\* row r carries the account number acct itself
CarriesEqual(ws, r, acct) ==
    /\ acct # <<>>
    /\ ~BlankValue(ws[r][account_col])
    /\ RowAccount(ws, r) = acct

\* this step of the loop lists its record as unmatched
ListsUnmatched == LoopStep /\ last_unmatched' # last_unmatched

\* among rows, the step lists its record only if none carries a match, and
\* matches it if one carries its account number
UnmatchedOnlyWithout(rows) ==
    /\ ListsUnmatched
          => \A r \in rows : ~CarriesMatch(worksheet, r, bills[idx].account_number)
    /\ (LoopStep /\ \E r \in rows :
                       CarriesEqual(worksheet, r, bills[idx].account_number))
          => (target_row' \in rows /\ last_unmatched' = last_unmatched)

\* C21 as stated: a record is listed as unmatched only if no template row at or
\* after the start row carries a non-empty account number that matches it, and
\* a record whose account number is that of such a row is matched to a row.
C21_UnmatchedOnlyWithoutRow ==
    [][UnmatchedOnlyWithout(RowsFromStart(worksheet))]_vars

\* C21: a record is listed as unmatched only if no template row among the
\* scan_rows rows from the start row carries a non-empty account number that
\* matches it, and a record whose account number is that of such a row is
\* matched to a row.
C21_UnmatchedOnlyWithoutScannedRow ==
    [][UnmatchedOnlyWithout(RowsInScan(worksheet))]_vars

\* a record was listed as unmatched whose account number the row past the
\* scanned range carries
C21_Witness ==
    /\ pc = "loop"
    /\ idx = 2
    /\ Len(last_unmatched) = 1
    /\ FarRow \in DOMAIN worksheet
    /\ CarriesEqual(worksheet, FarRow, bills[1].account_number)

\* a record was matched to the second scanned row, which carries its account
\* number
C21_WitnessMatched ==
    /\ pc = "loop"
    /\ idx = 2
    /\ last_unmatched = <<>>
    /\ target_row = start_row + 1
    /\ CarriesEqual(worksheet, target_row, bills[1].account_number)

-----------------------------------------------------------------------------
(* C22: several records of one account.  The batches are drawn from two     *)
(* records of account 12 and one of account 3, the templates from rows of   *)
(* accounts 12 and 12-3.                                                     *)

DuplicatePool ==
    { Bill("12", "09/15/2025", 1050, "1 Main St", 748, "08/01/2025 - 09/01/2025",
           NorthMarin, "a.pdf"),
      Bill("12", "10/15/2025", 20, "1 Main St", 1496, "", NorthMarin, "d.pdf"),
      Bill("3", "09/15/2025", 7, "2 Oak Ave", 0, "", NorthMarin, "e.pdf") }

DuplicateBatches == UNION { [1..n -> DuplicatePool] : n \in 1..MaxBatch }

DuplicateTemplates ==
    { Sheet(w) : w \in [ScannedRows -> { TemplateRow("12", FillBlank),
                                         TemplateRow("12", FillFull),
                                         TemplateRow("12-3", FillPartial),
                                         FillBlank }] }

InitDuplicates ==
    /\ district \in Districts
    /\ selection \in DuplicateBatches
    /\ template \in DuplicateTemplates \cup {Absent}
    /\ reportFile = Absent
    /\ has_last_unmatched = FALSE
    /\ last_unmatched = <<>>
    /\ pc = "idle"
    /\ bills = <<>>
    /\ idx = 1
    /\ worksheet = <<>>
    /\ excel_accounts = <<>>
    /\ target_row = 0
    /\ matched_count = 0
    /\ ret = NoneV
    /\ saves = 0
    /\ outcome = "none"
    /\ pdf_file = UnreadableFile
    /\ extractor = "NMWD"
    /\ epc = "idle"
    /\ cur_text = NoneV
    /\ returned = NoneV
    /\ call = NoCall
    /\ result = Pending
    /\ NoRun

NextDuplicates == generate_excel_report

SpecDuplicates == InitDuplicates /\ [][NextDuplicates]_vars

\* the places in the batch of the records of account acct, before place n
PlacesOf(acct, n) == {i \in 1..(n - 1) : bills[i].account_number = acct}

\* the j-th smallest of a set of numbers
Nth(rows, j) == CHOOSE r \in rows : Cardinality({q \in rows : q <= r}) = j

\* the template has a blank row for every record of account acct in the batch
EnoughBlankRows(acct) ==
    Cardinality(BlankMatchRows(template.rows, acct))
        >= Cardinality(PlacesOf(acct, Len(bills) + 1))

\* no record of another account number in the batch matches a row that is
\* blank for acct
NoOtherTaker(acct) ==
    \A i \in 1..Len(bills) :
        bills[i].account_number # acct
            => MatchRows(template.rows, bills[i].account_number)
                   \cap BlankMatchRows(template.rows, acct) = {}

\* the record taken by this step of the loop, the j-th of its account, goes to
\* the j-th blank row of its account, which then holds its total
TakesNextBlankRow ==
    LET acct == bills[idx].account_number
        j == Cardinality(PlacesOf(acct, idx)) + 1
        row == Nth(BlankMatchRows(template.rows, acct), j)
    IN  /\ target_row' = row
        /\ worksheet'[row][amount_col] = Num(bills[idx].total_due)

\* C22 as stated: when the template has at least as many blank rows for an
\* account as the batch has records of it, these records go, in batch order,
\* to these rows in ascending order, one row each.
C22_SameAccountDistinctRows ==
    [][(LoopStep /\ EnoughBlankRows(bills[idx].account_number))
          => TakesNextBlankRow]_vars

\* C22: when the template has at least as many blank rows for an account as
\* the batch has records of it, and no record of another account number in
\* the batch matches one of these rows, these records go, in batch order, to
\* these rows in ascending order, one row each.
C22_SameAccountDistinctRowsUntaken ==
    [][(/\ LoopStep
        /\ EnoughBlankRows(bills[idx].account_number)
        /\ NoOtherTaker(bills[idx].account_number))
          => TakesNextBlankRow]_vars

\* two records of account 12 were written to the two rows of the template, the
\* first to the upper and the second to the lower
C22_Witness ==
    /\ pc = "loop"
    /\ idx = 3
    /\ bills[1].account_number = bills[2].account_number
    /\ bills[1] # bills[2]
    /\ BlankMatchRows(template.rows, bills[1].account_number)
          = {start_row, start_row + 1}
    /\ worksheet[start_row][amount_col] = Num(bills[1].total_due)
    /\ worksheet[start_row + 1][amount_col] = Num(bills[2].total_due)

\* a record of account 3 took the one blank row of account 12, and the record
\* of account 12 after it was matched to that row and written nowhere
C22_WitnessTaken ==
    /\ pc = "loop"
    /\ idx = 3
    /\ bills[1].account_number = S("3")
    /\ bills[2].account_number = S("12")
    /\ BlankMatchRows(template.rows, S("12")) = {start_row}
    /\ target_row = start_row
    /\ worksheet[start_row][amount_col] = Num(bills[1].total_due)

-----------------------------------------------------------------------------
(* C25: what becomes of each record of the batch *)

\* this step of the loop counts its record as matched
CountsMatched == LoopStep /\ matched_count' = matched_count + 1

\* the rows of the sheet whose amount cell holds the total of the bill
RowsWithTotal(ws, bill) ==
    {r \in DOMAIN ws : ws[r][amount_col] = Num(bill.total_due)}

\* C25 as stated: every record taken by the loop is listed as unmatched or has
\* its total in the amount cell of exactly one row, and no record is counted
\* as matched while nothing of it is written.
C25_MatchedMeansWritten ==
    [][LoopStep =>
          /\ \/ ListsUnmatched
             \/ Cardinality(RowsWithTotal(worksheet', bills[idx])) = 1
          /\ CountsMatched => worksheet' # worksheet]_vars

\* C25: every record taken by the loop is either listed as unmatched, and then
\* not counted and written nowhere, or counted as matched to one indexed row
\* that matches its account number; its total is written to the amount cell of
\* that row when the cell was blank, and nothing of it is written when no cell
\* of the row was blank.
C25_MatchedOrListed ==
    [][LoopStep =>
          \/ /\ ListsUnmatched
             /\ ~CountsMatched
             /\ worksheet' = worksheet
          \/ /\ ~ListsUnmatched
             /\ CountsMatched
             /\ target_row' \in MatchRows(worksheet, bills[idx].account_number)
             /\ \A r \in DOMAIN worksheet :
                   r # target_row' => worksheet'[r] = worksheet[r]
             /\ BlankValue(worksheet[target_row'][amount_col])
                   => worksheet'[target_row'][amount_col]
                          = Num(bills[idx].total_due)
             /\ (\A c \in Columns : ~BlankValue(worksheet[target_row'][c]))
                   => worksheet' = worksheet]_vars

\* a record was counted as matched to a row without a blank cell: the sheet is
\* the template still and the record is not listed
C25_Witness ==
    /\ pc = "loop"
    /\ idx = 2
    /\ matched_count = 1
    /\ last_unmatched = <<>>
    /\ worksheet = template.rows
    /\ target_row # 0

\* a record's total was written to the amount cell of its row
C25_WitnessWritten ==
    /\ pc = "loop"
    /\ idx = 2
    /\ matched_count = 1
    /\ BlankValue(template.rows[target_row][amount_col])
    /\ worksheet[target_row][amount_col] = Num(bills[1].total_due)

-----------------------------------------------------------------------------
(* C26: account numbers without a digit *)

\* the loop has just matched a record to a row
JustMatched == pc = "loop" /\ idx > 1 /\ target_row # 0

\* C26: a record is matched to a row only if the record's account number and
\* the row's account cell both hold a digit.
C26_MatchNeedsDigits ==
    JustMatched =>
        /\ DigitsOnly(bills[idx - 1].account_number) # <<>>
        /\ DigitsOnly(RowAccount(worksheet, target_row)) # <<>>

\* a record whose account number holds no digit was matched to a row whose
\* account cell holds digits
C26_Witness ==
    /\ JustMatched
    /\ DigitsOnly(bills[idx - 1].account_number) = <<>>
    /\ DigitsOnly(RowAccount(worksheet, target_row)) # <<>>

\* a record whose account number holds digits was matched to a row whose
\* account cell holds none
C26_WitnessRow ==
    /\ JustMatched
    /\ DigitsOnly(bills[idx - 1].account_number) # <<>>
    /\ DigitsOnly(RowAccount(worksheet, target_row)) = <<>>

-----------------------------------------------------------------------------
(* C28: the unmatched list after a call *)

\* a call of generate_excel_report has returned
CallReturned == pc = "idle" /\ outcome # "none"

\* the batch the last call was handed
LastBatch == IF outcome = "no_bills" THEN <<>> ELSE selection

\* C28: after a call has returned, however it ended and whatever calls came
\* before it, every entry of the unmatched list is the pair of account number
\* and file name of a record of that call's batch, one entry for a record at
\* most.
C28_UnmatchedOfThisCall ==
    CallReturned =>
        /\ \A k \in DOMAIN last_unmatched :
              \E i \in DOMAIN LastBatch :
                  last_unmatched[k] = <<LastBatch[i].account_number,
                                        LastBatch[i].original_filename>>
        /\ Len(last_unmatched) <= Len(LastBatch)

\* a call with an empty batch has returned and the list holds an entry of the
\* call before it
C28_Witness ==
    /\ CallReturned
    /\ outcome = "no_bills"
    /\ has_last_unmatched
    /\ last_unmatched # <<>>

-----------------------------------------------------------------------------
(* C29: the account cells of the template *)

\* the account cells of ws are those of the template
AccountColumnKept(ws) ==
    /\ DOMAIN ws = DOMAIN template.rows
    /\ \A r \in DOMAIN ws : ws[r][account_col] = template.rows[r][account_col]

\* C29: the account cell of every row is the template's in the worksheet of a
\* call at work and in every report saved, and a row a record has just been
\* matched to has an account cell that is not blank.
C29_AccountColumnKept ==
    /\ pc = "loop" => AccountColumnKept(worksheet)
    /\ reportFile.t = "sheet" => AccountColumnKept(reportFile.rows)
    /\ JustMatched => ~BlankValue(template.rows[target_row][account_col])

\* a report was saved in which a record filled cells of a row, in a template
\* that also has a row whose account cell is blank
C29_Witness ==
    /\ outcome = "saved"
    /\ reportFile.t = "sheet"
    /\ reportFile.rows # template.rows
    /\ \E r \in DOMAIN template.rows : BlankValue(template.rows[r][account_col])

-----------------------------------------------------------------------------
(* C27: the two validity checks on one text *)

\* C27: the text an extractor has read or recognised is not accepted by both
\* validity checks.
C27_AtMostOneCheckAccepts ==
    ~(_is_nmwd_bill(cur_text) /\ _is_mmwd_bill(cur_text))

\* North Marin's extractor has returned a record for a text that Marin
\* Municipal's check accepts too and from which Marin Municipal's extractor
\* makes a record of its own
C27_Witness ==
    /\ extractor = "NMWD"
    /\ epc = "done"
    /\ returned # NoneV
    /\ returned.district = NorthMarin
    /\ _is_mmwd_bill(cur_text)
    /\ MMWD_fields(cur_text, pdf_file.name) # NoneV
    /\ MMWD_fields(cur_text, pdf_file.name).district = MarinMunicipal

-----------------------------------------------------------------------------
(* C24: the line scan for the units of a Marin Municipal bill *)

\* line j of lines holds only an integer
IntegerLine(lines, j) ==
    /\ j \in 1..Len(lines)
    /\ strip(lines[j]) # <<>>
    /\ AllDigits(strip(lines[j]))

\* the lines with "Water Use" that a line with "Units*" follows and that have
\* a line holding only an integer among the three lines after it
CountedLabels(lines) ==
    {i \in 1..Len(lines) :
        /\ InStr(S("Water Use"), lines[i])
        /\ i + 1 <= Len(lines)
        /\ InStr(S("Units*"), lines[i + 1])
        /\ \E j \in (i + 2)..(i + 4) : IntegerLine(lines, j)}

\* the integer that follows the label of line i
CountAfter(lines, i) ==
    ToInt(strip(lines[Least({j \in (i + 2)..(i + 4) : IntegerLine(lines, j)})]))

\* Marin Municipal's extractor has returned a record for a text in which the
\* labelled units and the table row are not found
LineScanDecides ==
    /\ extractor = "MMWD"
    /\ epc = "done"
    /\ Accepts(cur_text)
    /\ returned # NoneV
    /\ LabelledUnits(cur_text.s) = NoneV
    /\ TableUnits(cur_text.s) = NoneV

\* C24: when the first two strategies fail and the text has a "Water Use" line
\* that a "Units*" line follows, with a line holding only an integer among the
\* next three lines, wherever that line is, the record's usage is 748 times
\* that integer (that of the first such line).
C24_LineScanFindsUnits ==
    (LineScanDecides /\ CountedLabels(split_lines(cur_text.s)) # {})
        => returned.current_usage_gallons
              = 748 * CountAfter(split_lines(cur_text.s),
                                 Least(CountedLabels(split_lines(cur_text.s))))

\* a record without usage for a text whose second "Water Use" line is followed
\* by "Units*" and an integer, the first being followed by "Units*" and no
\* integer
C24_Witness ==
    /\ LineScanDecides
    /\ CountedLabels(split_lines(cur_text.s)) # {}
    /\ returned.current_usage_gallons = 0

\* a record with 748 * 34 gallons from the integer three lines below "Units*"
C24_WitnessFound ==
    /\ LineScanDecides
    /\ CountedLabels(split_lines(cur_text.s)) # {}
    /\ returned.current_usage_gallons = 748 * 34

-----------------------------------------------------------------------------
(* C23: the files a run works on *)

\* the files the loop of the last run has been through, in the order of their
\* rows in the results table
ProcessedFiles == [k \in DOMAIN results_tree |-> Processed(k)]

\* the loop over the selected files has ended
LoopEnded == AfterFiles \/ rpc = "report"

\* the first files of the selection the run began with, as many as there are
\* processed files
FirstOfStarted == SubSeq(started_with, 1, Len(ProcessedFiles))

\* C23: the files a run has been through are, in order and once each, the
\* files that were selected when the run began: the first of them while the
\* loop is at work and all of them when the loop has ended, whatever drop,
\* remove or select event was handled inside the run.
C23_RunProcessesItsSelection ==
    runs > 0
        => /\ Len(ProcessedFiles) <= Len(started_with)
           /\ ProcessedFiles = FirstOfStarted
           /\ LoopEnded => ProcessedFiles = started_with

\* a loop that ended with no event handled inside it went through the two
\* files the run began with
C23_Witness ==
    /\ LoopEnded
    /\ handled = <<>>
    /\ Len(started_with) = 2
    /\ ProcessedFiles = started_with

\* a file was dropped on the window inside the run, and the run went through
\* it as well
C23_WitnessDropped ==
    /\ handled = <<"_on_drop">>
    /\ Len(started_with) = 1
    /\ Len(ProcessedFiles) = 2

\* the first entry was removed from the list while the run worked on it, and
\* the loop ended without having gone through the second
C23_WitnessRemoved ==
    /\ handled = <<"remove_selected_files">>
    /\ LoopEnded
    /\ Len(started_with) = 2
    /\ selected_files = <<started_with[2]>>
    /\ ProcessedFiles = <<started_with[1]>>

\* select_files was called inside the run and the selection is as it was
C23_WitnessSelect ==
    /\ handled = <<"select_files">>
    /\ LoopEnded
    /\ selected_files = started_with
    /\ ProcessedFiles = started_with
    /\ Len(started_with) = 2

-----------------------------------------------------------------------------
(* C30: one run at a time *)

\* process_files has just been called by root.update() inside a run
Reentered == handled' = Append(handled, "process_files")

\* a run is in progress
RunInProgress == rpc # "idle"

\* a step begins a run
RunBegins == runs' # runs

\* C30: a call of process_files inside a run returns with no file processed,
\* no row, warning, record or copy added, the position of the run kept and
\* the flag still set; a run begins only when none is in progress; and when a
\* run has ended, by whichever path, an exception included, the flag is false
\* and the buttons are enabled, as they are before the first run.
C30_OneRunAtATime ==
    /\ (~RunInProgress => (~_processing /\ buttons_enabled))
    /\ [][ /\ Reentered
               => /\ _processing /\ _processing'
                  /\ UNCHANGED <<selected_files, rpc, file_index, file_path,
                                 buttons_enabled, successful_bills, warnings,
                                 results_tree, bills_dir, runs>>
                  /\ UNCHANGED <<excelVars, extractVars>>
           /\ RunBegins => (~RunInProgress /\ ~_processing)
           /\ RunInProgress' => (_processing' /\ ~buttons_enabled')
           /\ ~RunInProgress' => (~_processing' /\ buttons_enabled') ]_vars

\* process_files was called inside the one run there has been, and that run
\* went through its two files and ended
C30_Witness ==
    /\ handled = <<"process_files">>
    /\ runs = 1
    /\ ~RunInProgress
    /\ ~_processing
    /\ buttons_enabled
    /\ Len(started_with) = 2
    /\ ProcessedFiles = started_with

\* the run ended by an exception: its first file was taken from the list and
\* has no row
C30_WitnessException ==
    /\ ~RunInProgress
    /\ runs = 1
    /\ handled = <<>>
    /\ file_index = 2
    /\ results_tree = <<>>
    /\ ~_processing
    /\ buttons_enabled

\* a second run is in progress after the first has ended
C30_WitnessSecondRun ==
    /\ runs = 2
    /\ RunInProgress
    /\ _processing
====
